---- MODULE Spec2Model ----
(***************************************************************************)
(* Model of the code quality checker (scripts/quality-check.js, in its     *)
(* extended multi-language version): file discovery, per-file rule         *)
(* application with the global-regex match state, the whole-file           *)
(* structural checks, the cross-file analyzers and the report with its     *)
(* exit status.                                                            *)
(*                                                                         *)
(* Paths are modelled as sequences of one-character strings, so that       *)
(* includes / endsWith / toLowerCase / extname / replace are computed on   *)
(* the characters as the code computes them.  File contents are modelled   *)
(* as sequences of lines, a line being a sequence of atoms; every atom     *)
(* stands for one fixed piece of text (see AtomWidth) and positions inside *)
(* a line are character offsets computed from the atoms' widths.           *)
(***************************************************************************)
EXTENDS Integers, Sequences, FiniteSets, TLC

VARIABLES
    projectRoot,  \* the resolved project root (a path)
    rootExists,   \* whether projectRoot exists on disk
    tree,         \* the files below projectRoot, in readdir (depth-first) order
    dirFaults,    \* the directories below projectRoot that fail during a walk
    pkg,          \* package.json at the root: "absent", "bad" or its devDependencies
    files,        \* const files = getAllFiles(projectRoot)
    idx,          \* position of files.forEach(checkFile)
    lastIndex,    \* lastIndex of every /g pattern object of the rule tables
    ISSUES,       \* the issue store: severity -> sequence of findings
    pc,           \* position of the main script
    exitCode,     \* process exit status, -1 while the process runs
    report        \* what generateReport printed

vars == <<projectRoot, rootExists, tree, dirFaults, pkg, files, idx, lastIndex, ISSUES, pc, exitCode, report>>

----------------------------------------------------------------------------
(* Bounds of the model *)

\* most files in a project tree
MaxFiles == 2
\* most content lines (before padding) in the files of a tree, all together
MaxLines == 3

----------------------------------------------------------------------------
(* Strings: a string is a sequence of one-character strings *)

LowerChar(c) ==
    CASE c = "A" -> "a" [] c = "B" -> "b" [] c = "C" -> "c" [] c = "D" -> "d"
      [] c = "E" -> "e" [] c = "F" -> "f" [] c = "G" -> "g" [] c = "H" -> "h"
      [] c = "I" -> "i" [] c = "J" -> "j" [] c = "K" -> "k" [] c = "L" -> "l"
      [] c = "M" -> "m" [] c = "N" -> "n" [] c = "O" -> "o" [] c = "P" -> "p"
      [] c = "Q" -> "q" [] c = "R" -> "r" [] c = "S" -> "s" [] c = "T" -> "t"
      [] c = "U" -> "u" [] c = "V" -> "v" [] c = "W" -> "w" [] c = "X" -> "x"
      [] c = "Y" -> "y" [] c = "Z" -> "z" [] OTHER -> c

\* String.prototype.toLowerCase
ToLower(s) == [i \in 1..Len(s) |-> LowerChar(s[i])]

\* 1-based index of the first occurrence of p in s, 0 when there is none
IndexOf(s, p) ==
    LET hits == {i \in 1..(Len(s) - Len(p) + 1) : SubSeq(s, i, i + Len(p) - 1) = p}
    IN  IF hits = {} THEN 0 ELSE CHOOSE i \in hits : \A j \in hits : i <= j

\* String.prototype.includes
Includes(s, p) == IndexOf(s, p) > 0

\* String.prototype.endsWith
EndsWith(s, p) == Len(s) >= Len(p) /\ SubSeq(s, Len(s) - Len(p) + 1, Len(s)) = p

\* String.prototype.replace(p, '') with a string pattern: the first occurrence only
RemoveFirst(s, p) ==
    LET i == IndexOf(s, p)
    IN  IF i = 0 THEN s ELSE SubSeq(s, 1, i - 1) \o SubSeq(s, i + Len(p), Len(s))

\* 1-based index of the last occurrence of character c in s, 0 when there is none
LastIndexOfChar(s, c) ==
    LET hits == {i \in 1..Len(s) : s[i] = c}
    IN  IF hits = {} THEN 0 ELSE CHOOSE i \in hits : \A j \in hits : i >= j

\* file.split('/').pop(): the last component of a path
BaseName(p) == SubSeq(p, LastIndexOfChar(p, "/") + 1, Len(p))

\* path.extname: from the last '.' of the base name, '' when there is none
\* or when the base name starts with its only '.'
ExtName(p) ==
    LET b == BaseName(p)
        i == LastIndexOfChar(b, ".")
    IN  IF i <= 1 THEN <<>> ELSE SubSeq(b, i, Len(b))

\* path.join(dir, file)
Join(dir, file) == dir \o <<"/">> \o file

RECURSIVE JoinAll(_, _)
JoinAll(base, comps) ==
    IF comps = <<>> THEN base ELSE JoinAll(Join(base, Head(comps)), Tail(comps))

----------------------------------------------------------------------------
(* String literals of the source and the names used in the project trees *)

\* literals of the program
S_services == <<"s","e","r","v","i","c","e","s","/">>
S_project == <<"p","r","o","j","e","c","t">>
S_package_json == <<"p","a","c","k","a","g","e",".","j","s","o","n">>
S_packages_config == <<"p","a","c","k","a","g","e","s",".","c","o","n","f","i","g">>
S_app_config == <<"a","p","p",".","c","o","n","f","i","g">>
S_web_config == <<"w","e","b",".","c","o","n","f","i","g">>
P_Service == <<"S","e","r","v","i","c","e",".">>
P_service == <<"s","e","r","v","i","c","e",".">>
P_uservice == <<"_","s","e","r","v","i","c","e",".">>
P_uService == <<"_","S","e","r","v","i","c","e",".">>
P_test == <<".","t","e","s","t",".">>
P_spec == <<".","s","p","e","c",".">>
P_tests_dir == <<"_","_","t","e","s","t","s","_","_">>
P_test_dir == <<"_","_","t","e","s","t","_","_">>
P_Tests == <<"T","e","s","t","s">>
P_Test == <<"T","e","s","t">>
P_lc_test == <<"t","e","s","t">>
P_lc_spec == <<"s","p","e","c">>
E_ts == <<".","t","s">>
E_tsx == <<".","t","s","x">>
E_js == <<".","j","s">>
E_jsx == <<".","j","s","x">>
E_py == <<".","p","y">>
E_html == <<".","h","t","m","l">>
E_htm == <<".","h","t","m">>
E_sql == <<".","s","q","l">>
E_cs == <<".","c","s">>
E_cshtml == <<".","c","s","h","t","m","l">>
E_razor == <<".","r","a","z","o","r">>
E_csproj == <<".","c","s","p","r","o","j">>

\* names of the modelled project trees
S_root == <<"/","w">>
S_src == <<"s","r","c">>
S_lib == <<"l","i","b">>
S_tests_dir == <<"_","_","t","e","s","t","s","_","_">>
S_node_modules == <<"n","o","d","e","_","m","o","d","u","l","e","s">>
S_a_ts == <<"a",".","t","s">>
S_b_test_ts == <<"b",".","t","e","s","t",".","t","s">>
S_v_tsx == <<"v",".","t","s","x">>
S_a_html == <<"a",".","h","t","m","l">>
S_b_test_html == <<"b",".","t","e","s","t",".","h","t","m","l">>
S_a_sql == <<"a",".","s","q","l">>
S_b_test_sql == <<"b",".","t","e","s","t",".","s","q","l">>
S_UserService_ts == <<"U","s","e","r","S","e","r","v","i","c","e",".","t","s">>
S_userservice_js == <<"u","s","e","r","s","e","r","v","i","c","e",".","j","s">>
S_UserService_cs == <<"U","s","e","r","S","e","r","v","i","c","e",".","c","s">>
S_App_csproj == <<"A","p","p",".","c","s","p","r","o","j">>
S_service_v1 == <<"s","e","r","v","i","c","e",".","v","1">>
S_a_cs == <<"a",".","c","s">>
S_readme_md == <<"r","e","a","d","m","e",".","m","d">>
----------------------------------------------------------------------------
(* Configuration *)

MAX_FILE_SIZE == 500
MAX_COMPONENT_SIZE == 300

SUPPORTED_EXTENSIONS ==
    {E_ts, E_tsx, E_js, E_jsx, E_py, E_html, E_htm, E_sql, E_cs, E_cshtml, E_razor}

\* the directories getAllFiles and findProjectFiles do not descend into
SKIPPED_DIRS ==
    { <<"n","o","d","e","_","m","o","d","u","l","e","s">>, <<"d","i","s","t">>,
      <<"b","u","i","l","d">>, <<".","g","i","t">>, <<"s","c","r","i","p","t","s">>,
      <<".","n","e","x","t">>, <<".","n","u","x","t">>,
      <<"c","o","v","e","r","a","g","e">>, <<".","v","s","c","o","d","e">>,
      <<".","i","d","e","a">>, <<"b","i","n">>, <<"o","b","j">>,
      <<"p","a","c","k","a","g","e","s">> }

Severities == {"critical", "high", "medium", "low", "info"}

----------------------------------------------------------------------------
(* File contents: atoms and their text                                     *)
(*                                                                         *)
(*   TypeScript / JavaScript                                               *)
(*     sp       two blanks                                                 *)
(*     xss      dangerouslySetInnerHTML                                    *)
(*     any      : any;                                                     *)
(*     log      console.log(                                               *)
(*     todo     TODO                                                       *)
(*   HTML                                                                  *)
(*     doctype  <!DOCTYPE html>                                            *)
(*     imgalt   <img src="a.png" alt="a">                                  *)
(*     img      <img src="b.png">                                          *)
(*     para     <p>hi</p>                                                  *)
(*     onclick  onclick=                                                   *)
(*     onload   onload=                                                    *)
(*     script   <script>x()</script>                                       *)
(*     style    <style>p{}</style>                                         *)
(*     jsurl    javascript:                                                *)
(*     inputx   <input id="x">                                             *)
(*     labelx   <label for="x">                                            *)
(*   SQL                                                                   *)
(*     pw       password = 'x'                                             *)
(*     selstar  SELECT * FROM                                              *)
(*     tsemi    " t;"  (a table name and the end of the statement)         *)
(*     concat   SELECT a FROM t WHERE n = '" + "                           *)
(*     drop     DROP TABLE t;                                              *)
(*     dropif   DROP TABLE IF EXISTS t;                                    *)
(*     begin    BEGIN TRANSACTION;                                         *)
(*     param    :id                                                        *)
(*   Python                                                                *)
(*     deftyped def f(a: int):                                             *)
(*     arrow    # ->                                                       *)
(*     print    print(                                                     *)
(*     implog   import logging                                             *)
(*   C#                                                                    *)
(*     newconn  new SqlConnection(                                         *)
(*     using    using (                                                    *)
(*     dispose  .Dispose(                                                  *)
(*     asyncm   async Task Run()                                           *)
(*     await    "await "                                                   *)
(*     pubclass public class C                                             *)
(*     pubmeth  public void Run(string s)                                  *)
(*     pubmeth0 public void Run()                                          *)
(*     nullchk  == null                                                    *)
(*     doc      /// <summary>                                              *)
(*     connstr  ConnectionString = "password=x"                            *)
(*     cfgmgr   ConfigurationManager                                       *)
(*                                                                         *)
(* A line is a sequence of atoms, its text their concatenation.  The atoms *)
(* are chosen so that a pattern matches exactly one whole atom and never   *)
(* across the boundary of two atoms.                                       *)

AtomWidth(a) ==
    CASE a = "sp" -> 2 [] a = "xss" -> 23 [] a = "any" -> 6 [] a = "log" -> 12
      [] a = "todo" -> 4
      [] a = "doctype" -> 15 [] a = "imgalt" -> 25 [] a = "img" -> 17
      [] a = "para" -> 9 [] a = "onclick" -> 8 [] a = "onload" -> 7
      [] a = "script" -> 20 [] a = "style" -> 18 [] a = "jsurl" -> 11
      [] a = "inputx" -> 14 [] a = "labelx" -> 15
      [] a = "pw" -> 14 [] a = "selstar" -> 13 [] a = "tsemi" -> 3
      [] a = "concat" -> 32 [] a = "drop" -> 13 [] a = "dropif" -> 23
      [] a = "begin" -> 18 [] a = "param" -> 3
      [] a = "deftyped" -> 14 [] a = "arrow" -> 4 [] a = "print" -> 6
      [] a = "implog" -> 14
      [] a = "newconn" -> 18 [] a = "using" -> 7 [] a = "dispose" -> 9
      [] a = "asyncm" -> 16 [] a = "await" -> 6 [] a = "pubclass" -> 14
      [] a = "pubmeth" -> 25 [] a = "pubmeth0" -> 17 [] a = "nullchk" -> 7
      [] a = "doc" -> 13 [] a = "connstr" -> 31 [] a = "cfgmgr" -> 20
      [] OTHER -> 1

RECURSIVE LineLen(_)
\* line.length
LineLen(line) == IF line = <<>> THEN 0 ELSE AtomWidth(Head(line)) + LineLen(Tail(line))

\* 0-based character offset of the i-th atom of a line
Offset(line, i) == LineLen(SubSeq(line, 1, i - 1))

----------------------------------------------------------------------------
(* The rule tables.  Every rule is one /g (or /gi) RegExp object, which    *)
(* lives for the whole process and keeps its lastIndex between the calls   *)
(* of test().  A rule is modelled by the atoms its pattern matches.        *)

Rule(id, severity, message, atoms) ==
    [id |-> id, severity |-> severity, message |-> message, atoms |-> atoms]

TS_JS_PATTERNS == <<
    Rule("ts1", "critical", "XSS vulnerability: dangerouslySetInnerHTML", {"xss"}),
    Rule("ts2", "high", "Type safety issue: any type used", {"any"}),
    Rule("ts3", "medium", "console.log found", {"log"}),
    Rule("ts4", "low", "TODO/FIXME comment found", {"todo"}) >>

PYTHON_PATTERNS == <<
    Rule("py1", "critical", "Security risk: eval()", {"eval"}),
    Rule("py2", "critical", "Security risk: exec()", {"exec"}),
    Rule("py3", "critical", "Security risk: pickle.load()", {"pickle"}),
    Rule("py4", "medium", "print() found", {"print"}),
    Rule("py5", "high", "Type safety: Any type used", {"Any"}),
    Rule("py6", "low", "TODO/FIXME comment found", {"todo"}) >>

HTML_PATTERNS == <<
    Rule("html1", "critical", "Inline script without nonce/CSP protection", {"script"}),
    Rule("html2", "high", "Inline event handler (onclick)", {"onclick"}),
    Rule("html3", "high", "Inline event handler", {"onload"}),
    Rule("html4", "medium", "Image missing alt attribute", {"img", "imgalt"}),
    Rule("html5", "medium", "Inline styles without nonce/CSP protection", {"style"}),
    Rule("html6", "critical", "javascript: protocol in href/src", {"jsurl"}),
    Rule("html7", "low", "TODO/FIXME comment found", {"todo"}) >>

SQL_PATTERNS == <<
    Rule("sql1", "critical", "SQL injection risk: String concatenation in WHERE clause", {"concat"}),
    Rule("sql2", "critical", "SQL injection risk: String concatenation in INSERT", {"insconcat"}),
    Rule("sql3", "critical", "SQL injection risk: String concatenation in UPDATE", {"updconcat"}),
    Rule("sql4", "critical", "Hardcoded password found", {"pw"}),
    Rule("sql5", "critical", "Hardcoded credentials found", {"pw"}),
    Rule("sql6", "medium", "SELECT * found", {"selstar"}),
    Rule("sql7", "low", "TODO/FIXME comment found", {"todo"}) >>

CSHARP_PATTERNS == <<
    Rule("cs1", "critical", "SQL injection risk: String concatenation in SqlCommand", {"sqlcmdconcat"}),
    Rule("cs2", "critical", "SQL injection risk: String concatenation in SqlCommand constructor", {"newsqlcmdconcat"}),
    Rule("cs3", "critical", "SQL injection risk: CommandText with string concatenation", {"cmdtext"}),
    Rule("cs4", "critical", "XSS vulnerability: Html.Raw() without encoding", {"htmlraw"}),
    Rule("cs5", "critical", "XSS vulnerability: Response.Write with Request data", {"respwrite"}),
    Rule("cs6", "critical", "XSS vulnerability: Direct Request output in ASPX", {"aspxreq"}),
    Rule("cs7", "critical", "Security risk: BinaryFormatter.Deserialize is insecure", {"binfmt"}),
    Rule("cs8", "high", "Security risk: JavaScriptSerializer can be insecure", {"jsser"}),
    Rule("cs9", "critical", "Security risk: SoapFormatter.Deserialize is insecure", {"soapfmt"}),
    Rule("cs10", "critical", "Hardcoded password found", {"cspw"}),
    Rule("cs11", "critical", "Hardcoded connection string with password", {"connstr"}),
    Rule("cs12", "high", "Blocking async call with .Result", {"dotresult"}),
    Rule("cs13", "high", "Blocking async call with .Wait()", {"dotwait"}),
    Rule("cs14", "high", "Blocking async call with GetAwaiter().GetResult()", {"getresult"}),
    Rule("cs15", "high", "IDisposable resource created", {"newconn"}),
    Rule("cs16", "medium", "Console.WriteLine found", {"conwrite"}),
    Rule("cs17", "low", "Debug.WriteLine found", {"dbgwrite"}),
    Rule("cs18", "high", "Empty catch block", {"emptycatch"}),
    Rule("cs19", "medium", "Catch and rethrow without context", {"rethrow"}),
    Rule("cs20", "medium", "Using object type", {"objvar"}),
    Rule("cs21", "medium", "Creating object instance", {"newobject"}),
    Rule("cs22", "low", "Large magic number found", {"magic"}),
    Rule("cs23", "low", "TODO/FIXME comment found", {"todo"}) >>

\* every pattern object of the process
ALL_PATTERNS ==
    TS_JS_PATTERNS \o PYTHON_PATTERNS \o HTML_PATTERNS \o SQL_PATTERNS \o CSHARP_PATTERNS

RuleIds == {ALL_PATTERNS[i].id : i \in 1..Len(ALL_PATTERNS)}

\* Whether the pattern of a rule matches with its match starting at atom i
\* of the line.  The image pattern /<img[^>]*(?!.*alt=)[^>]*>/ matches any
\* complete image tag, with or without an alt attribute of its own, unless
\* the text "alt=" occurs later in the line: the lookahead is tried at
\* every position inside the tag, the last one included.
MatchesAt(rule, line, i) ==
    /\ line[i] \in rule.atoms
    /\ rule.id = "html4" => \A j \in (i + 1)..Len(line) : line[j] # "imgalt"

\* the length of the text a pattern matches in an atom: the whole atom,
\* except where the pattern covers only the beginning of the atom's text
MatchWidth(id, a) ==
    IF id = "csdoc" THEN (IF a = "pubclass" THEN 12 ELSE 15) ELSE AtomWidth(a)

\* RegExp.prototype.test of a /g pattern: the search starts at lastIndex;
\* a match sets lastIndex to its end, a failure resets lastIndex to 0.
TestRule(rule, line, li) ==
    LET hits == {i \in 1..Len(line) : Offset(line, i) >= li /\ MatchesAt(rule, line, i)}
        first == CHOOSE i \in hits : \A j \in hits : i <= j
    IN  IF li > LineLen(line) \/ hits = {}
        THEN [hit |-> FALSE, lastIndex |-> 0]
        ELSE [hit |-> TRUE, lastIndex |-> Offset(line, first) + MatchWidth(rule.id, line[first])]

----------------------------------------------------------------------------
(* Findings and the issue store *)

Finding(file, line, message, count, args) ==
    [file |-> file, line |-> line, message |-> message, count |-> count, args |-> args]

\* ISSUES[severity].unshift(finding): the Finding put first in its bucket
Push_Unshift(issues, severity, finding) ==
    [issues EXCEPT ![severity] = <<finding>> \o @]

\* ISSUES[severity].push(finding)
Push(issues, severity, finding) ==
    [issues EXCEPT ![severity] = Append(@, finding)]

\* the state the analysis of files threads through: the store and the
\* lastIndex of the pattern objects
St(issues, li) == [issues |-> issues, lastIndex |-> li]

----------------------------------------------------------------------------
(* The file system the process reads.  A tree entry is a file:             *)
(*   dir       the directories from the root down to the file             *)
(*   name      the file name                                               *)
(*   readable  whether readFileSync succeeds on it                         *)
(*   head      the first lines of its content                              *)
(*   pad       the number of empty lines that follow the head              *)

File(dir, name, readable, head, pad) ==
    [dir |-> dir, name |-> name, readable |-> readable, head |-> head, pad |-> pad]

FullPath(e) == Join(JoinAll(projectRoot, e.dir), e.name)

\* the entry readFileSync(path) reads
EntryAt(path) == CHOOSE e \in {tree[i] : i \in 1..Len(tree)} : FullPath(e) = path

\* content.split('\n').length
LineCount(e) == Len(e.head) + e.pad

\* whether the walk reaches the entry and keeps it
Discoverable(e) ==
    /\ \A k \in 1..Len(e.dir) : e.dir[k] \notin SKIPPED_DIRS
    /\ ExtName(e.name) \in SUPPORTED_EXTENSIONS

\* A directory that fails during a walk.  It is listed by readdirSync of
\* its parent and holds no file of the tree; `how` is
\*   "enoent"  statSync of the entry throws (it vanished, a dangling link)
\*   "gone"    it vanished after statSync: existsSync(dir) is false
\*   "eacces"  it cannot be read: readdirSync(dir) throws
DirFault(dir, how) == [dir |-> dir, how |-> how]

HasFault(dir, how) == \E i \in 1..Len(dirFaults) : dirFaults[i] = DirFault(dir, how)

IsPrefix(p, d) == Len(p) <= Len(d) /\ SubSeq(d, 1, Len(p)) = p

\* readdirSync(dir) with what statSync says of each name: the files and
\* the subdirectories of dir, each once
ReadDir(dir) ==
    LET under == SelectSeq(tree, LAMBDA e : IsPrefix(dir, e.dir))
        listed == [i \in 1..Len(under) |->
                      IF Len(under[i].dir) = Len(dir)
                      THEN [name |-> under[i].name, isDirectory |-> FALSE]
                      ELSE [name |-> under[i].dir[Len(dir) + 1], isDirectory |-> TRUE]]
        firsts == SelectSeq([i \in 1..Len(listed) |-> i],
                            LAMBDA i : \A j \in 1..(i - 1) : listed[j] # listed[i])
        faulty == SelectSeq(dirFaults, LAMBDA f : Len(f.dir) = Len(dir) + 1 /\ IsPrefix(dir, f.dir))
    IN  [k \in 1..Len(firsts) |-> listed[firsts[k]]]
        \o [k \in 1..Len(faulty) |-> [name |-> faulty[k].dir[Len(dir) + 1], isDirectory |-> TRUE]]

\* the deny-list test of the walk, made with the name of the directory
Descends_AtRootOnly(dir, name) == dir # <<>> \/ name \notin SKIPPED_DIRS

\* whether the walk descends into the subdirectory `name` of dir
Descends(dir, name) == name \notin SKIPPED_DIRS

RECURSIVE getAllFilesIn(_, _)
RECURSIVE WalkEntries(_, _, _)

\* files.forEach(file => ...) of getAllFiles on the entries of dir;
\* acc is fileList and whether an exception is on its way up
WalkEntries(dir, entries, acc) ==
    IF entries = <<>> \/ acc.threw THEN acc
    ELSE LET file == Head(entries)
             path == dir \o <<file.name>>
             next == IF file.isDirectory
                     THEN IF HasFault(path, "enoent") THEN [acc EXCEPT !.threw = TRUE]
                          ELSE IF Descends(dir, file.name) THEN getAllFilesIn(path, acc)
                          ELSE acc
                     ELSE IF ExtName(file.name) \in SUPPORTED_EXTENSIONS
                          THEN [acc EXCEPT !.fileList = Append(@, Join(JoinAll(projectRoot, dir), file.name))]
                          ELSE acc
         IN  WalkEntries(dir, Tail(entries), next)

\* getAllFiles(dir, fileList), dir given by its names below the root
getAllFilesIn(dir, acc) ==
    IF (dir = <<>> /\ ~rootExists) \/ HasFault(dir, "gone") THEN acc
    ELSE IF HasFault(dir, "eacces") THEN [acc EXCEPT !.threw = TRUE]
    ELSE WalkEntries(dir, ReadDir(dir), acc)

\* getAllFiles(projectRoot): the supported files outside the skipped
\* directories, in the order of the walk; nothing when the root is missing
getAllFiles == getAllFilesIn(<<>>, [fileList |-> <<>>, threw |-> FALSE]).fileList

\* whether getAllFiles(projectRoot) ends with an exception
getAllFilesThrows == getAllFilesIn(<<>>, [fileList |-> <<>>, threw |-> FALSE]).threw

\* the extension as it is written, without toLowerCase()
getFileExtension_AsWritten(filePath) == ExtName(filePath)

getFileExtension(filePath) == ToLower(ExtName(filePath))

getPatternsForFile(filePath) ==
    LET ext == getFileExtension(filePath)
    IN  IF ext \in {E_ts, E_tsx, E_js, E_jsx} THEN TS_JS_PATTERNS
        ELSE IF ext = E_py THEN PYTHON_PATTERNS
        ELSE IF ext \in {E_html, E_htm} THEN HTML_PATTERNS
        ELSE IF ext = E_sql THEN SQL_PATTERNS
        ELSE IF ext \in {E_cs, E_cshtml, E_razor} THEN CSHARP_PATTERNS
        ELSE <<>>

\* filePath.replace(projectRoot + '/', '')
RelativePath(filePath) == RemoveFirst(filePath, projectRoot \o <<"/">>)

----------------------------------------------------------------------------
(* checkFile: the line-level rules *)

\* The nested loops lines.forEach(line => patterns.forEach(rule => ...))
\* call rule.pattern.test on every line in turn.  The pattern objects do
\* not share state, so the lastIndex a rule has before line n depends on
\* that rule and the lines before n alone.

RECURSIVE LastIndexAfter(_, _, _, _)
\* lastIndex of the rule's pattern after the first n lines, li0 before them
LastIndexAfter(rule, lines, n, li0) ==
    IF n = 0 THEN li0
    ELSE TestRule(rule, lines[n], LastIndexAfter(rule, lines, n - 1, li0)).lastIndex

\* whether pattern.test(line) is true for rule k on line n
RuleHits(rules, k, lines, n, li) ==
    TestRule(rules[k], lines[n], LastIndexAfter(rules[k], lines, n - 1, li[rules[k].id])).hit

\* the findings of the nested loops with the 0-based index of the line as
\* their line number
RuleFindings_ZeroBased(rules, lines, rel, li) ==
    LET K == Len(rules)
        calls == [m \in 1..(Len(lines) * K) |-> [n |-> ((m - 1) \div K) + 1, k |-> ((m - 1) % K) + 1]]
        hits == SelectSeq(calls, LAMBDA c : RuleHits(rules, c.k, lines, c.n, li))
    IN  [i \in 1..Len(hits) |->
            [severity |-> rules[hits[i].k].severity,
             finding |-> Finding(rel, hits[i].n - 1, rules[hits[i].k].message, 0, <<>>)]]

\* the findings of the nested loops in the order they are pushed: line by
\* line and, on one line, rule by rule
RuleFindings(rules, lines, rel, li) ==
    LET K == Len(rules)
        calls == [m \in 1..(Len(lines) * K) |-> [n |-> ((m - 1) \div K) + 1, k |-> ((m - 1) % K) + 1]]
        hits == SelectSeq(calls, LAMBDA c : RuleHits(rules, c.k, lines, c.n, li))
    IN  [i \in 1..Len(hits) |->
            [severity |-> rules[hits[i].k].severity,
             finding |-> Finding(rel, hits[i].n, rules[hits[i].k].message, 0, <<>>)]]

\* ISSUES[f.severity].push(f.finding) for every element of fs in order
PushEach(issues, fs) ==
    [s \in Severities |->
        issues[s] \o LET mine == SelectSeq(fs, LAMBDA f : f.severity = s)
                     IN  [i \in 1..Len(mine) |-> mine[i].finding]]

\* the pattern state after a whole file: the head, then the empty lines
\* of the padding, on which test('') fails and resets lastIndex
LastIndexAfterFile(rules, lines, pad, li) ==
    [id \in DOMAIN li |->
        IF \E k \in 1..Len(rules) : rules[k].id = id
        THEN LET r == rules[CHOOSE k \in 1..Len(rules) : rules[k].id = id]
                 afterHead == LastIndexAfter(r, lines, Len(lines), li[id])
             IN  IF pad = 0 THEN afterHead ELSE TestRule(r, <<>>, afterHead).lastIndex
        ELSE li[id]]

\* the line-level rules of checkFile on one file
ApplyRules(rules, lines, pad, rel, st) ==
    St(PushEach(st.issues, RuleFindings(rules, lines, rel, st.lastIndex)),
       LastIndexAfterFile(rules, lines, pad, st.lastIndex))

\* the size checks with the file-size comparison taken as >=
CheckSizes_AtThreshold(filePath, rel, lineCount, issues) ==
    LET i1 == IF lineCount >= MAX_FILE_SIZE
              THEN Push(issues, "high", Finding(rel, 1, "File is too large", lineCount, <<>>))
              ELSE issues
    IN  IF EndsWith(filePath, E_tsx) /\ lineCount > MAX_COMPONENT_SIZE
        THEN Push(i1, "medium", Finding(rel, 1, "Component is large", lineCount, <<>>))
        ELSE i1

\* the size checks with the component-size comparison taken as >=
CheckSizes_ComponentAtThreshold(filePath, rel, lineCount, issues) ==
    LET i1 == IF lineCount > MAX_FILE_SIZE
              THEN Push(issues, "high", Finding(rel, 1, "File is too large", lineCount, <<>>))
              ELSE issues
    IN  IF EndsWith(filePath, E_tsx) /\ lineCount >= MAX_COMPONENT_SIZE
        THEN Push(i1, "medium", Finding(rel, 1, "Component is large", lineCount, <<>>))
        ELSE i1

\* the size checks at the top of checkFile
CheckSizes(filePath, rel, lineCount, issues) ==
    LET i1 == IF lineCount > MAX_FILE_SIZE
              THEN Push(issues, "high", Finding(rel, 1, "File is too large", lineCount, <<>>))
              ELSE issues
    IN  IF EndsWith(filePath, E_tsx) /\ lineCount > MAX_COMPONENT_SIZE
        THEN Push(i1, "medium", Finding(rel, 1, "Component is large", lineCount, <<>>))
        ELSE i1

----------------------------------------------------------------------------
(* Whole-file structural checks.  content is the text of the file; here it *)
(* is the head, the padding being empty lines.                             *)

RECURSIVE Flatten(_, _)
\* the atoms of the content in document order, each with its line number
Flatten(lines, n) ==
    IF n > Len(lines) THEN <<>>
    ELSE [i \in 1..Len(lines[n]) |-> [atom |-> lines[n][i], line |-> n, pos |-> i]]
         \o Flatten(lines, n + 1)

\* content.includes / regex.test(content) for a text that lies inside one atom
HasAtom(lines, atoms) == \E n \in 1..Len(lines) : \E i \in 1..Len(lines[n]) : lines[n][i] \in atoms

\* ISSUES[severity].push(f) for every f of fs in order
PushAll(issues, severity, fs) == [issues EXCEPT ![severity] = @ \o fs]

\* the name of the function an atom defines, for the atoms that are a
\* definition line  /^def\s+(\w+)\s*\(([^)]*)\)\s*:/  with typed parameters
\*   deftyped   def f(a: int):
\*   defplain   def f(a):
\*   print      print(         implog   import logging
checkPythonFile(rel, lines, issues) ==
    LET defs == SelectSeq([n \in 1..Len(lines) |-> n],
                          LAMBDA n : lines[n] # <<>> /\ lines[n][1] = "deftyped"
                                     /\ ~HasAtom(<<lines[n]>>, {"arrow"}))
        fs == [k \in 1..Len(defs) |->
                  Finding(rel, defs[k], "Function has parameter type hints but missing return type hint",
                          0, << <<"f">> >>)]
        i1 == PushAll(issues, "medium", fs)
    IN  IF HasAtom(lines, {"print"}) /\ ~HasAtom(lines, {"implog"})
        THEN Push(i1, "medium", Finding(rel, 1, "print() statements found but logging module not imported", 0, <<>>))
        ELSE i1

\* the id of an input tag, the target of a label tag
InputId(a) == IF a = "inputx" THEN <<"x">> ELSE <<>>
LabelFor(a) == IF a = "labelx" THEN <<"x">> ELSE <<>>

RECURSIVE Distinct(_, _)
\* the elements of a sequence in the order of their first occurrence (a Set)
Distinct(s, seen) ==
    IF s = <<>> THEN <<>>
    ELSE IF Head(s) \in seen THEN Distinct(Tail(s), seen)
    ELSE <<Head(s)>> \o Distinct(Tail(s), seen \cup {Head(s)})

\* content.trim(): the first atom that is not white space, if any
FirstText(lines) ==
    LET all == SelectSeq(Flatten(lines, 1), LAMBDA x : x.atom # "sp")
    IN  IF all = <<>> THEN "" ELSE all[1].atom

checkHTMLFile(rel, lines, issues) ==
    LET all == Flatten(lines, 1)
        i1 == IF FirstText(lines) # "doctype"
              THEN Push(issues, "low", Finding(rel, 1, "HTML file missing DOCTYPE declaration", 0, <<>>))
              ELSE issues
        \* every <img ...> of the content whose own text has no alt=
        imgs == SelectSeq(all, LAMBDA x : x.atom = "img")
        i2 == PushAll(i1, "medium",
                      [k \in 1..Len(imgs) |->
                          Finding(rel, imgs[k].line, "Image missing alt attribute", 0, <<>>)])
        inputs == SelectSeq(all, LAMBDA x : InputId(x.atom) # <<>>)
        inputIds == Distinct([k \in 1..Len(inputs) |-> InputId(inputs[k].atom)], {})
        labelFors == {LabelFor(all[k].atom) : k \in 1..Len(all)}
        missing == SelectSeq(inputIds, LAMBDA id : id \notin labelFors)
    IN  PushAll(i2, "medium",
                [k \in 1..Len(missing) |->
                    Finding(rel, 1, "Input missing corresponding label", 0, <<missing[k]>>)])

\* the atoms that end a statement: text ending in ';' at the end of a line
EndsStatement(line) ==
    LET text == SelectSeq(line, LAMBDA a : a # "sp")
    IN  text # <<>> /\ text[Len(text)] \in {"tsemi", "drop", "dropif", "begin"}

checkSQLFile(rel, lines, issues) ==
    LET hasParameterized == HasAtom(lines, {"param"})
        hasStringConcat == HasAtom(lines, {"concat", "insconcat", "updconcat"})
        i1 == IF hasStringConcat /\ ~hasParameterized
              THEN Push(issues, "critical",
                        Finding(rel, 1, "SQL file contains string concatenation but no parameterized queries", 0, <<>>))
              ELSE issues
        \* /DROP\s+(TABLE|DATABASE)/ and /IF\s+EXISTS/ are each tested on the whole content
        i2 == IF HasAtom(lines, {"drop", "dropif"}) /\ ~HasAtom(lines, {"dropif"})
              THEN Push(i1, "high", Finding(rel, 1, "DROP statement without IF EXISTS clause", 0, <<>>))
              ELSE i1
        hasTransactions == HasAtom(lines, {"begin"})
        hasMultipleStatements ==
            Cardinality({n \in 1..Len(lines) : EndsStatement(lines[n])}) > 1
    IN  IF hasMultipleStatements /\ ~hasTransactions
        THEN Push(i2, "medium", Finding(rel, 1, "Multiple SQL statements found without explicit transaction handling", 0, <<>>))
        ELSE i2

\* the disposable types checkCSharpFile looks for, in its order, with the
\* atom that constructs each
DisposableTypes == << [type |-> <<"S","q","l","C","o","n","n","e","c","t","i","o","n">>, atom |-> "newconn"] >>

\* the regex of the XML documentation check, a /g object made by every call
PublicMemberRegex == Rule("csdoc", "low", "Public member missing XML documentation", {"pubclass", "pubmeth", "pubmeth0"})

\* /^\s*\/\/\/\s*</.test(line)
IsDocLine(line) ==
    LET text == SelectSeq(line, LAMBDA a : a # "sp")
    IN  text # <<>> /\ text[1] = "doc"

RECURSIVE CheckXmlDoc(_, _, _, _, _, _)
\* the lines.forEach of the XML documentation check, from line n on; li is
\* the lastIndex of publicMemberRegex, lastDocLine a 1-based line number (0: none)
CheckXmlDoc(rel, lines, n, li, lastDocLine, issues) ==
    IF n > Len(lines) THEN issues
    ELSE IF IsDocLine(lines[n]) THEN CheckXmlDoc(rel, lines, n + 1, li, n, issues)
    ELSE LET t == TestRule(PublicMemberRegex, lines[n], li)
         IN  CheckXmlDoc(rel, lines, n + 1, t.lastIndex, lastDocLine,
                         IF t.hit /\ lastDocLine # n - 1
                         THEN Push(issues, "low", Finding(rel, n, PublicMemberRegex.message, 0, <<>>))
                         ELSE issues)

\* the lines from..to of the content, cut to the file
Window(lines, from, to) ==
    SubSeq(lines, IF from < 1 THEN 1 ELSE from, IF to > Len(lines) THEN Len(lines) ELSE to)

\* the constructions of one disposable type that no using statement in
\* the 5 lines before and no Dispose or using in the 10 lines from it covers
Undisposed(lines, t) ==
    SelectSeq(Flatten(lines, 1), LAMBDA x :
        /\ x.atom = t.atom
        /\ ~HasAtom(Window(lines, x.line - 4, x.line - 1)
                      \o <<SubSeq(lines[x.line], 1, x.pos - 1)>>, {"using"})
        /\ ~HasAtom(<<SubSeq(lines[x.line], x.pos, Len(lines[x.line]))>>
                      \o Window(lines, x.line + 1, x.line + 9), {"dispose", "using"}))

RECURSIVE CheckDisposables(_, _, _, _)
\* disposableTypes.forEach(...), from type k on
CheckDisposables(rel, lines, k, issues) ==
    IF k > Len(DisposableTypes) THEN issues
    ELSE LET u == Undisposed(lines, DisposableTypes[k])
         IN  CheckDisposables(rel, lines, k + 1,
                PushAll(issues, "high",
                        [j \in 1..Len(u) |->
                            Finding(rel, u[j].line, "created without using statement", 0,
                                    <<DisposableTypes[k].type>>)]))

checkCSharpFile(rel, lines, issues) ==
    LET all == Flatten(lines, 1)
        i1 == CheckDisposables(rel, lines, 1, issues)
        \* async methods without await within 20 lines
        asyncs == SelectSeq([n \in 1..Len(lines) |-> n], LAMBDA n :
                     /\ HasAtom(<<lines[n]>>, {"asyncm"})
                     /\ ~HasAtom(Window(lines, n, n + 19), {"await", "taskrun"}))
        i2 == PushAll(i1, "medium",
                      [k \in 1..Len(asyncs) |->
                          Finding(rel, asyncs[k], "Async method found without await", 0, <<>>)])
        \* public methods with parameters and no null check within 15 lines
        nonull == SelectSeq([n \in 1..Len(lines) |-> n], LAMBDA n :
                     /\ HasAtom(<<lines[n]>>, {"pubmeth"})
                     /\ ~HasAtom(Window(lines, n, n + 14), {"nullchk"}))
        i3 == PushAll(i2, "medium",
                      [k \in 1..Len(nonull) |->
                          Finding(rel, nonull[k], "Public method with parameters missing null checks", 0, <<>>)])
        i4 == CheckXmlDoc(rel, lines, 1, 0, 0, i3)
    IN  IF HasAtom(lines, {"connstr"}) /\ ~HasAtom(lines, {"cfgmgr"})
        THEN Push(i4, "high", Finding(rel, 1, "Hardcoded configuration values found", 0, <<>>))
        ELSE i4

----------------------------------------------------------------------------
(* checkFile.  It returns the store and the pattern state after the file;  *)
(* the caller decides what a failing readFileSync does.                    *)

\* checkFile with the additional checks of the language run before the
\* line-level rules
checkFile_StructuralFirst(filePath, st) ==
    LET e == EntryAt(filePath)
        rel == RelativePath(filePath)
        lines == e.head
        ext == getFileExtension(filePath)
        patterns == getPatternsForFile(filePath)
        sized == CheckSizes(filePath, rel, LineCount(e), st.issues)
        issues == IF ext = E_py THEN checkPythonFile(rel, lines, sized)
                  ELSE IF ext \in {E_html, E_htm} THEN checkHTMLFile(rel, lines, sized)
                  ELSE IF ext = E_sql THEN checkSQLFile(rel, lines, sized)
                  ELSE IF ext \in {E_cs, E_cshtml, E_razor} THEN checkCSharpFile(rel, lines, sized)
                  ELSE sized
    IN  ApplyRules(patterns, lines, e.pad, rel, St(issues, st.lastIndex))

checkFile(filePath, st) ==
    LET e == EntryAt(filePath)
        rel == RelativePath(filePath)
        lines == e.head
        ext == getFileExtension(filePath)
        patterns == getPatternsForFile(filePath)
        sized == CheckSizes(filePath, rel, LineCount(e), st.issues)
        ruled == ApplyRules(patterns, lines, e.pad, rel, St(sized, st.lastIndex))
        issues == IF ext = E_py THEN checkPythonFile(rel, lines, ruled.issues)
                  ELSE IF ext \in {E_html, E_htm} THEN checkHTMLFile(rel, lines, ruled.issues)
                  ELSE IF ext = E_sql THEN checkSQLFile(rel, lines, ruled.issues)
                  ELSE IF ext \in {E_cs, E_cshtml, E_razor} THEN checkCSharpFile(rel, lines, ruled.issues)
                  ELSE ruled.issues
    IN  St(issues, ruled.lastIndex)

----------------------------------------------------------------------------
(* Cross-file analyzers *)

\* file.split('/').pop().replace(/\.(ts|tsx|js|jsx|py)$/, '').toLowerCase()
ServiceBaseName(file) ==
    LET b == BaseName(file)
        exts == {x \in {E_ts, E_tsx, E_js, E_jsx, E_py} : EndsWith(b, x)}
        cut == IF exts = {} THEN b
               ELSE LET x == CHOOSE y \in exts : TRUE IN SubSeq(b, 1, Len(b) - Len(x))
    IN  ToLower(cut)

\* the filter of checkForDuplicates, on the whole path
IsServiceFile(f) ==
    Includes(f, P_Service) \/ Includes(f, P_service) \/ Includes(f, P_uservice) \/ Includes(f, P_uService)

checkForDuplicates(issues) ==
    LET serviceFiles == SelectSeq(getAllFiles, IsServiceFile)
        \* the keys of serviceMap in insertion order
        keys == Distinct([i \in 1..Len(serviceFiles) |-> ServiceBaseName(serviceFiles[i])], {})
        Group(k) == SelectSeq(serviceFiles, LAMBDA f : ServiceBaseName(f) = k)
        Unique(k) == Distinct([i \in 1..Len(Group(k)) |-> RelativePath(Group(k)[i])], {})
        dup == SelectSeq(keys, LAMBDA k : Len(Group(k)) > 1 /\ Len(Unique(k)) > 1)
    IN  PushAll(issues, "critical",
                [i \in 1..Len(dup) |->
                    Finding(S_services, 0, "Potential duplicate service files detected", 0, Unique(dup[i]))])

\* the filter of checkForTests, on the whole path
IsTestFile(f) ==
    Includes(f, P_test) \/ Includes(f, P_spec) \/ Includes(f, P_tests_dir) \/ Includes(f, P_test_dir)

\* checkForTests recording the missing tests as a warning
checkForTests_Warning(issues) ==
    IF SelectSeq(getAllFiles, IsTestFile) = <<>>
    THEN Push(issues, "medium", Finding(S_project, 0, "No test files found", 0, <<>>))
    ELSE issues

checkForTests(issues) ==
    IF SelectSeq(getAllFiles, IsTestFile) = <<>>
    THEN Push(issues, "high", Finding(S_project, 0, "No test files found", 0, <<>>))
    ELSE issues

\* package.json: state is "absent", "bad" (JSON.parse or a property access
\* throws) or "ok", with the names under devDependencies
Pkg(state, dev) == [state |-> state, dev |-> dev, deps |-> {}]

\* a package.json that parses, with the names under devDependencies and
\* those under dependencies
PkgDeps(dev, deps) == [state |-> "ok", dev |-> dev, deps |-> deps]

\* checkPackageJson with the catch around JSON.parse alone: the checks of
\* the dependencies run after a failed parse as well
checkPackageJson_CatchParseOnly(issues) ==
    IF pkg.state = "absent"
    THEN Push(issues, "info", Finding(S_package_json, 0, "No package.json found", 0, <<>>))
    ELSE LET i0 == IF pkg.state = "bad"
                   THEN Push(issues, "critical", Finding(S_package_json, 0, "Could not read package.json", 0, <<>>))
                   ELSE issues
             i1 == IF pkg.dev \cap {"eslint", "@typescript-eslint/parser"} = {}
                   THEN Push(i0, "medium", Finding(S_package_json, 0, "ESLint not configured", 0, <<>>))
                   ELSE i0
         IN  IF pkg.dev \cap {"vitest", "jest", "@testing-library/react", "mocha", "ava"} = {}
             THEN Push(i1, "high", Finding(S_package_json, 0, "No testing framework found", 0, <<>>))
             ELSE i1

\* checkPackageJson reading dependencies as well as devDependencies
checkPackageJson_AnySection(issues) ==
    IF pkg.state = "absent"
    THEN Push(issues, "info", Finding(S_package_json, 0, "No package.json found", 0, <<>>))
    ELSE IF pkg.state = "bad"
    THEN Push(issues, "critical", Finding(S_package_json, 0, "Could not read package.json", 0, <<>>))
    ELSE LET all == pkg.dev \cup pkg.deps
             i1 == IF all \cap {"eslint", "@typescript-eslint/parser"} = {}
                   THEN Push(issues, "medium", Finding(S_package_json, 0, "ESLint not configured", 0, <<>>))
                   ELSE issues
         IN  IF all \cap {"vitest", "jest", "@testing-library/react", "mocha", "ava"} = {}
             THEN Push(i1, "high", Finding(S_package_json, 0, "No testing framework found", 0, <<>>))
             ELSE i1

\* only packageJson.devDependencies is read
checkPackageJson(issues) ==
    IF pkg.state = "absent"
    THEN Push(issues, "info", Finding(S_package_json, 0, "No package.json found", 0, <<>>))
    ELSE IF pkg.state = "bad"
    THEN Push(issues, "critical", Finding(S_package_json, 0, "Could not read package.json", 0, <<>>))
    ELSE LET i1 == IF pkg.dev \cap {"eslint", "@typescript-eslint/parser"} = {}
                   THEN Push(issues, "medium", Finding(S_package_json, 0, "ESLint not configured", 0, <<>>))
                   ELSE issues
         IN  IF pkg.dev \cap {"vitest", "jest", "@testing-library/react", "mocha", "ava"} = {}
             THEN Push(i1, "high", Finding(S_package_json, 0, "No testing framework found", 0, <<>>))
             ELSE i1

\* .csproj and .config contents are atoms as well:
\*   tf_net40     <TargetFramework>net40</TargetFramework>
\*   tf_net4.0    <TargetFramework>net4.0</TargetFramework>
\*   tf_net4.5.1  <TargetFramework>net4.5.1</TargetFramework>
\*   tf_net4.8    <TargetFramework>net4.8</TargetFramework>
\*   tf_net4.5    <TargetFramework>net4.5</TargetFramework>
\*   tf_net451    <TargetFramework>net451</TargetFramework>
\*   tf_net452    <TargetFramework>net452</TargetFramework>
\*   tf_net4.5.2  <TargetFramework>net4.5.2</TargetFramework>
\*   tfv_4.0      <TargetFrameworkVersion>v4.0</TargetFrameworkVersion>
\*   nullable     <Nullable>enable</Nullable>
\*   projconnpw   <ConnectionString>password=x</ConnectionString>
\*   pkgpw        <password>x
\*   cfgconnpw    connectionString="password=x"
\*   debugtrue    <compilation debug="true">
\*   custerroff   <customErrors mode="Off">
\* the text captured by /TargetFramework[^>]*>([^<]+)</i, '' for other atoms
TargetFrameworkText(a) ==
    CASE a = "tf_net40" -> <<"n","e","t","4","0">>
      [] a = "tf_net4.0" -> <<"n","e","t","4",".","0">>
      [] a = "tf_net4.5.1" -> <<"n","e","t","4",".","5",".","1">>
      [] a = "tf_net4.8" -> <<"n","e","t","4",".","8">>
      [] a = "tf_net4.5" -> <<"n","e","t","4",".","5">>
      [] a = "tf_net451" -> <<"n","e","t","4","5","1">>
      [] a = "tf_net452" -> <<"n","e","t","4","5","2">>
      [] a = "tf_net4.5.2" -> <<"n","e","t","4",".","5",".","2">>
      [] a = "tfv_4.0" -> <<"v","4",".","0">>
      [] OTHER -> <<>>

DigitVal(c) ==
    CASE c = "0" -> 0 [] c = "1" -> 1 [] c = "2" -> 2 [] c = "3" -> 3 [] c = "4" -> 4
      [] c = "5" -> 5 [] c = "6" -> 6 [] c = "7" -> 7 [] c = "8" -> 8 [] c = "9" -> 9
      [] OTHER -> -1

RECURSIVE DigitRun(_, _)
\* the length of the longest run of digits of s that starts at index i
DigitRun(s, i) ==
    IF i > Len(s) \/ DigitVal(s[i]) < 0 THEN 0 ELSE 1 + DigitRun(s, i + 1)

\* (\d+\.\d+) at index i of s: the captured text, '' when it does not match
CaptureVersion(s, i) ==
    LET d1 == DigitRun(s, i)
        d2 == DigitRun(s, i + d1 + 1)
    IN  IF d1 > 0 /\ i + d1 <= Len(s) /\ s[i + d1] = "." /\ d2 > 0
        THEN SubSeq(s, i, i + d1 + d2)
        ELSE <<>>

\* s.match(/<prefix>(\d+\.\d+)/i): the capture of the leftmost match, '' for none
MatchVersion(s, prefix) ==
    LET low == ToLower(s)
        at == {i \in 1..Len(s) :
                 /\ i + Len(prefix) - 1 <= Len(s)
                 /\ SubSeq(low, i, i + Len(prefix) - 1) = prefix
                 /\ CaptureVersion(s, i + Len(prefix)) # <<>>}
    IN  IF at = {} THEN <<>>
        ELSE CaptureVersion(s, (CHOOSE i \in at : \A j \in at : i <= j) + Len(prefix))

\* targetFramework.match(/netframework(\d+\.\d+)/i) || targetFramework.match(/net(\d+\.\d+)/i)
VersionMatch(targetFramework) ==
    LET m1 == MatchVersion(targetFramework, <<"n","e","t","f","r","a","m","e","w","o","r","k">>)
    IN  IF m1 # <<>> THEN m1 ELSE MatchVersion(targetFramework, <<"n","e","t">>)

RECURSIVE IntOf(_, _)
\* the value of a run of digits
IntOf(s, acc) == IF s = <<>> THEN acc ELSE IntOf(Tail(s), acc * 10 + DigitVal(Head(s)))

\* parseFloat(v) < 4.5 for v of the form digits.digits
BelowThreshold(v) ==
    LET d1 == DigitRun(v, 1)
        major == IntOf(SubSeq(v, 1, d1), 0)
    IN  major < 4 \/ (major = 4 /\ DigitVal(v[d1 + 2]) < 5)

\* whether findProjectFiles reaches the entry
Walked(e) == \A k \in 1..Len(e.dir) : e.dir[k] \notin SKIPPED_DIRS

checkOneCsproj(e, issues) ==
    IF ~e.readable
    THEN Push(issues, "medium", Finding(RelativePath(FullPath(e)), 0, "Could not read .csproj file", 0, <<>>))
    ELSE LET rel == RelativePath(FullPath(e))
             tfs == SelectSeq(Flatten(e.head, 1), LAMBDA x : TargetFrameworkText(x.atom) # <<>>)
             tf == TargetFrameworkText(tfs[1].atom)
             i1 == IF tfs # <<>>
                   THEN IF VersionMatch(tf) # <<>> /\ BelowThreshold(VersionMatch(tf))
                        THEN Push(issues, "high", Finding(rel, 0, "Target framework is below 4.5.2", 0, <<tf>>))
                        ELSE issues
                   ELSE Push(issues, "medium", Finding(rel, 0, "TargetFramework not specified in .csproj file", 0, <<>>))
             i2 == IF ~HasAtom(e.head, {"nullable"})
                   THEN Push(i1, "medium", Finding(rel, 0, "Nullable reference types not enabled", 0, <<>>))
                   ELSE i1
         IN  IF HasAtom(e.head, {"projconnpw"})
             THEN Push(i2, "critical", Finding(rel, 0, "Connection string with password found in .csproj", 0, <<>>))
             ELSE i2

checkOnePackagesConfig(e, issues) ==
    IF ~e.readable THEN issues
    ELSE LET rel == RelativePath(FullPath(e))
             i1 == Push(issues, "medium", Finding(rel, 0, "packages.config found", 0, <<>>))
         IN  IF HasAtom(e.head, {"pkgpw"})
             THEN Push(i1, "critical", Finding(rel, 0, "Password found in packages.config", 0, <<>>))
             ELSE i1

checkOneConfig(e, issues) ==
    IF ~e.readable THEN issues
    ELSE LET rel == RelativePath(FullPath(e))
             i1 == IF HasAtom(e.head, {"cfgconnpw"})
                   THEN Push(issues, "critical", Finding(rel, 0, "Connection string with hardcoded password in config file", 0, <<>>))
                   ELSE issues
             i2 == IF HasAtom(e.head, {"debugtrue"})
                   THEN Push(i1, "high", Finding(rel, 0, "Debug mode enabled in config", 0, <<>>))
                   ELSE i1
         IN  IF HasAtom(e.head, {"custerroff"})
             THEN Push(i2, "medium", Finding(rel, 0, "Custom errors disabled", 0, <<>>))
             ELSE i2

\* the body of the forEach over the project files of one kind
CheckEntry(kind, e, issues) ==
    CASE kind = "csproj" -> checkOneCsproj(e, issues)
      [] kind = "packagesConfig" -> checkOnePackagesConfig(e, issues)
      [] kind = "config" -> checkOneConfig(e, issues)

RECURSIVE ForEachEntry(_, _, _)
\* entries.forEach(e => ...) for the project files of one kind
ForEachEntry(kind, entries, issues) ==
    IF entries = <<>> THEN issues
    ELSE ForEachEntry(kind, Tail(entries), CheckEntry(kind, Head(entries), issues))

\* the test-file filter of checkDotNetProjectFiles, on the whole path
IsDotNetTestFile(f) ==
    Includes(f, P_test) \/ Includes(f, P_spec) \/ Includes(f, P_Tests) \/ Includes(f, P_Test)

checkDotNetProjectFiles(issues) ==
    LET walked == IF rootExists THEN SelectSeq(tree, Walked) ELSE <<>>
        csprojFiles == SelectSeq(walked, LAMBDA e : ToLower(ExtName(e.name)) = E_csproj)
        packagesConfigFiles ==
            SelectSeq(walked, LAMBDA e : ToLower(ExtName(e.name)) # E_csproj /\ e.name = S_packages_config)
        configFiles ==
            SelectSeq(walked, LAMBDA e : /\ ToLower(ExtName(e.name)) # E_csproj
                                         /\ e.name # S_packages_config
                                         /\ ToLower(e.name) \in {S_app_config, S_web_config})
        i1 == ForEachEntry("csproj", csprojFiles, issues)
        i2 == ForEachEntry("packagesConfig", packagesConfigFiles, i1)
        i3 == ForEachEntry("config", configFiles, i2)
        testFiles == SelectSeq(getAllFiles, IsDotNetTestFile)
        hasTestProject ==
            \E k \in 1..Len(csprojFiles) :
                \/ Includes(ToLower(FullPath(csprojFiles[k])), P_lc_test)
                \/ Includes(ToLower(FullPath(csprojFiles[k])), P_lc_spec)
    IN  IF csprojFiles # <<>> /\ ~hasTestProject /\ testFiles = <<>>
        THEN Push(i3, "high", Finding(S_project, 0, ".NET project found but no test project detected", 0, <<>>))
        ELSE i3

----------------------------------------------------------------------------
(* generateReport *)

\* the summary with the high bucket left out of the failure test
Verdict_CriticalOnly(issues) ==
    IF Len(issues["critical"]) > 0 THEN "FAILED"
    ELSE IF Len(issues["medium"]) > 0 \/ Len(issues["low"]) > 0 THEN "PASSED WITH WARNINGS"
    ELSE "PASSED"

\* the summary with the info bucket counted among the warnings
Verdict_InfoWarns(issues) ==
    IF Len(issues["critical"]) > 0 \/ Len(issues["high"]) > 0 THEN "FAILED"
    ELSE IF Len(issues["medium"]) > 0 \/ Len(issues["low"]) > 0 \/ Len(issues["info"]) > 0
    THEN "PASSED WITH WARNINGS"
    ELSE "PASSED"

\* the summary at the end of generateReport and the status it exits with
Verdict(issues) ==
    IF Len(issues["critical"]) > 0 \/ Len(issues["high"]) > 0 THEN "FAILED"
    ELSE IF Len(issues["medium"]) > 0 \/ Len(issues["low"]) > 0 THEN "PASSED WITH WARNINGS"
    ELSE "PASSED"

ExitStatus(issues) == IF Verdict(issues) = "FAILED" THEN 1 ELSE 0

\* the report with the severities printed in the order of the keys of
\* ISSUES reversed
generateReport_LowFirst(issues) ==
    [ total    |-> Len(issues["critical"]) + Len(issues["high"]) + Len(issues["medium"])
                    + Len(issues["low"]) + Len(issues["info"]),
      counts   |-> [s \in Severities |-> Len(issues[s])],
      printed  |-> issues["low"] \o issues["medium"] \o issues["high"] \o issues["critical"],
      verdicts |-> <<Verdict(issues)>> ]

generateReport(issues) ==
    [ total    |-> Len(issues["critical"]) + Len(issues["high"]) + Len(issues["medium"])
                    + Len(issues["low"]) + Len(issues["info"]),
      counts   |-> [s \in Severities |-> Len(issues[s])],
      printed  |-> issues["critical"] \o issues["high"] \o issues["medium"] \o issues["low"],
      verdicts |-> <<Verdict(issues)>> ]

NoReport == [total |-> 0, counts |-> [s \in Severities |-> 0], printed |-> <<>>, verdicts |-> <<>>]

EmptyStore == [s \in Severities |-> <<>>]

----------------------------------------------------------------------------
(* The main script, one action per statement of the main execution *)

\* const files = getAllFiles(projectRoot).  Nothing catches what statSync
\* or readdirSync throw during the walk: the process dies with status 1.
Discover ==
    /\ pc = "discover"
    /\ IF getAllFilesThrows
       THEN /\ pc' = "crashed"
            /\ exitCode' = 1
            /\ UNCHANGED files
       ELSE /\ files' = getAllFiles
            /\ pc' = IF getAllFiles = <<>> THEN "duplicates" ELSE "checkFile"
            /\ exitCode' = exitCode
    /\ idx' = 1
    /\ UNCHANGED <<projectRoot, rootExists, tree, dirFaults, pkg, lastIndex, ISSUES, report>>

\* one call of files.forEach(checkFile).  readFileSync throws on a file
\* that cannot be read; nothing catches it, so the process dies with
\* status 1 and nothing further runs.
CheckFile ==
    /\ pc = "checkFile"
    /\ idx <= Len(files)
    /\ IF EntryAt(files[idx]).readable
       THEN LET st == checkFile(files[idx], St(ISSUES, lastIndex))
            IN  /\ ISSUES' = st.issues
                /\ lastIndex' = st.lastIndex
                /\ idx' = idx + 1
                /\ pc' = IF idx = Len(files) THEN "duplicates" ELSE "checkFile"
                /\ exitCode' = exitCode
       ELSE /\ pc' = "crashed"
            /\ exitCode' = 1
            /\ UNCHANGED <<ISSUES, lastIndex, idx>>
    /\ UNCHANGED <<projectRoot, rootExists, tree, dirFaults, pkg, files, report>>

CheckForDuplicates ==
    /\ pc = "duplicates"
    /\ ISSUES' = checkForDuplicates(ISSUES)
    /\ pc' = "tests"
    /\ UNCHANGED <<projectRoot, rootExists, tree, dirFaults, pkg, files, idx, lastIndex, exitCode, report>>

CheckForTests ==
    /\ pc = "tests"
    /\ ISSUES' = checkForTests(ISSUES)
    /\ pc' = "packageJson"
    /\ UNCHANGED <<projectRoot, rootExists, tree, dirFaults, pkg, files, idx, lastIndex, exitCode, report>>

CheckPackageJson ==
    /\ pc = "packageJson"
    /\ ISSUES' = checkPackageJson(ISSUES)
    /\ pc' = "dotnet"
    /\ UNCHANGED <<projectRoot, rootExists, tree, dirFaults, pkg, files, idx, lastIndex, exitCode, report>>

CheckDotNetProjectFiles ==
    /\ pc = "dotnet"
    /\ ISSUES' = checkDotNetProjectFiles(ISSUES)
    /\ pc' = "report"
    /\ UNCHANGED <<projectRoot, rootExists, tree, dirFaults, pkg, files, idx, lastIndex, exitCode, report>>

GenerateReport ==
    /\ pc = "report"
    /\ report' = generateReport(ISSUES)
    /\ exitCode' = ExitStatus(ISSUES)
    /\ pc' = "done"
    /\ UNCHANGED <<projectRoot, rootExists, tree, dirFaults, pkg, files, idx, lastIndex, ISSUES>>

Next ==
    \/ Discover
    \/ CheckFile
    \/ CheckForDuplicates
    \/ CheckForTests
    \/ CheckPackageJson
    \/ CheckDotNetProjectFiles
    \/ GenerateReport

----------------------------------------------------------------------------
(* The project trees the process is run on *)

\* the contents of the lines of a file, by language
TsLines == { <<>>, <<"xss">>, <<"log">>, <<"any", "todo">>, <<"log", "log">> }

HtmlLines == { <<"doctype">>, <<"imgalt">>, <<"img">>, <<"inputx">>, <<"labelx">> }

SqlLines == { <<"pw">>, <<"selstar", "tsemi">>, <<"concat">>, <<"drop">>,
              <<"dropif">>, <<"begin">>, <<"param">> }

CsLines == { <<"doc">>, <<"pubclass">>, <<"pubmeth0">> }

TsNames == <<S_a_ts, S_b_test_ts, <<"c",".","j","s">>, <<"d",".","t","s">>>>
HtmlNames == <<S_a_html, S_b_test_html, <<"c",".","h","t","m">>, <<"d",".","h","t","m","l">>>>
CsNames == <<S_a_cs>>
SqlNames == <<S_a_sql, S_b_test_sql, <<"c",".","s","q","l">>, <<"d",".","s","q","l">>>>

\* the pattern state links the files of a run, so the trees of several
\* files are of one language; the others have their lines in one file
Languages ==
    { [names |-> TsNames, lines |-> TsLines, maxFiles |-> MaxFiles],
      [names |-> HtmlNames, lines |-> HtmlLines, maxFiles |-> 1],
      [names |-> SqlNames, lines |-> SqlLines, maxFiles |-> 1],
      [names |-> CsNames, lines |-> CsLines, maxFiles |-> 1] }

RECURSIVE Sum(_)
Sum(s) == IF s = <<>> THEN 0 ELSE Head(s) + Sum(Tail(s))

\* the tree of readable files at the root, the i-th named names[i] and
\* holding the next lens[i] lines of `all`
SplitTree(names, all, lens) ==
    [i \in 1..Len(lens) |->
        File(<<>>, names[i], TRUE,
             SubSeq(all, Sum(SubSeq(lens, 1, i - 1)) + 1, Sum(SubSeq(lens, 1, i))), 0)]

\* trees of at most MaxFiles files of one language, with lines of its
\* catalogue and at most MaxLines lines in all
ContentTree(t) ==
    \E lang \in Languages : \E k \in 0..lang.maxFiles : \E lens \in [1..k -> 1..MaxLines] :
        /\ Sum(lens) <= MaxLines
        /\ \E all \in [1..Sum(lens) -> lang.lines] : t = SplitTree(lang.names, all, lens)

\* line counts around the two thresholds: a one-line head and this padding
PadChoices == {0, MAX_COMPONENT_SIZE - 1, MAX_COMPONENT_SIZE, MAX_FILE_SIZE - 1, MAX_FILE_SIZE}

\* one file with a line count around the thresholds, after up to
\* MaxFiles - 1 small files, each of which may be unreadable
SizeTree(t) ==
    \E k \in 0..(MaxFiles - 1) : \E r \in [1..k -> BOOLEAN] :
    \E n \in {S_a_ts, S_v_tsx, S_a_html} : \E rb \in BOOLEAN :
    \E l \in {<<>>, <<"any">>, <<"onclick">>} : \E p \in PadChoices :
        t = [i \in 1..k |-> File(<<>>, TsNames[i + 1], r[i], << <<>> >>, 0)]
            \o <<File(<<>>, n, rb, <<l>>, p)>>

\* files with an empty content under names and directories that matter to
\* the cross-file analyzers
NamedFiles ==
    { File(d, n, TRUE, << <<>> >>, 0) :
        d \in {<<>>, <<S_src>>, <<S_tests_dir>>},
        n \in {S_UserService_ts, S_userservice_js, S_UserService_cs, S_a_ts, S_b_test_ts, S_App_csproj} }

\* a walk lists a directory once: the files of one directory are adjacent
WalkOrder(t) ==
    \A i, j, k \in 1..Len(t) : (i < j /\ j < k /\ t[i].dir = t[k].dir) => t[j].dir = t[i].dir

NameTree(t) ==
    \E k \in 0..MaxFiles : \E f \in [1..k -> NamedFiles] :
        /\ \A i, j \in 1..k : i # j => <<f[i].dir, f[i].name>> # <<f[j].dir, f[j].name>>
        /\ WalkOrder(f)
        /\ t = f

\* trees with a file the walk does not keep: one under a skipped directory
\* and one with an extension that is not supported
OtherTrees ==
    { <<File(<<S_node_modules>>, S_a_ts, TRUE, << <<"xss">> >>, 0)>>,
      <<File(<<S_lib>>, S_a_ts, TRUE, << <<"xss">> >>, 0), File(<<>>, S_readme_md, TRUE, << <<"todo">> >>, 0)>>,
      <<File(<<S_src>>, S_b_test_ts, TRUE, << <<>> >>, 0),
        File(<<S_src, S_node_modules>>, S_a_ts, TRUE, << <<"xss">> >>, 0)>>,
      <<File(<<S_node_modules, S_src>>, S_a_ts, TRUE, << <<"xss">> >>, 0),
        File(<<>>, S_b_test_ts, TRUE, << <<>> >>, 0)>>,
      <<File(<<S_src, S_lib>>, S_b_test_ts, TRUE, << <<"log">> >>, 0),
        File(<<S_src>>, S_a_ts, TRUE, << <<"todo">> >>, 0)>>,
      \* two files of one name under a directory whose name has a dot
      <<File(<<S_service_v1>>, S_a_ts, TRUE, << <<>> >>, 0),
        File(<<S_service_v1, S_src>>, S_a_ts, TRUE, << <<>> >>, 0),
        File(<<>>, S_b_test_ts, TRUE, << <<>> >>, 0)>> }

\* trees walked while one directory fails
FaultTrees ==
    { <<>>,
      <<File(<<>>, S_b_test_ts, TRUE, << <<"log">> >>, 0)>>,
      <<File(<<S_src>>, S_a_ts, TRUE, << <<"todo">> >>, 0), File(<<>>, S_b_test_ts, TRUE, << <<>> >>, 0)>> }

FaultChoices ==
    { <<DirFault(d, h)>> : d \in {<<S_lib>>, <<S_node_modules>>, <<S_src, S_lib>>, <<S_node_modules, S_lib>>},
                           h \in {"enoent", "gone", "eacces"} }

\* the target framework declarations of a project descriptor
TfAtoms ==
    { "tf_net40", "tf_net4.0", "tf_net4.5", "tf_net451", "tf_net4.5.1",
      "tf_net452", "tf_net4.5.2", "tf_net4.8", "tfv_4.0" }

\* a project with one descriptor that declares a target framework
CsprojTrees == { <<File(<<>>, S_App_csproj, TRUE, << <<a>> >>, 0)>> : a \in TfAtoms }

PkgAbsent == Pkg("absent", {})
PkgFull == Pkg("ok", {"eslint", "vitest"})
Manifests ==
    { PkgAbsent, Pkg("bad", {}), Pkg("ok", {}), Pkg("ok", {"eslint"}), Pkg("ok", {"jest"}), PkgFull,
      PkgDeps({}, {"eslint", "jest"}), PkgDeps({"@typescript-eslint/parser", "mocha"}, {}) }

Init ==
    /\ projectRoot = S_root
    /\ \/ /\ rootExists = FALSE
          /\ tree = <<>>
          /\ dirFaults = <<>>
          /\ pkg = PkgAbsent
       \/ /\ rootExists = TRUE
          /\ pkg = PkgAbsent
          /\ dirFaults = <<>>
          /\ \/ ContentTree(tree) \/ SizeTree(tree) \/ NameTree(tree)
             \/ tree \in OtherTrees \/ tree \in CsprojTrees
       \/ /\ rootExists = TRUE
          /\ pkg = PkgAbsent
          /\ dirFaults \in FaultChoices
          /\ tree \in FaultTrees
       \/ /\ rootExists = TRUE
          /\ pkg \in Manifests
          /\ dirFaults = <<>>
          /\ tree \in { <<>>, <<File(<<>>, S_b_test_ts, TRUE, << <<>> >>, 0)>> }
    /\ files = <<>>
    /\ idx = 1
    /\ lastIndex = [id \in RuleIds |-> 0]
    /\ ISSUES = EmptyStore
    /\ pc = "discover"
    /\ exitCode = -1
    /\ report = NoReport

Spec == Init /\ [][Next]_vars

----------------------------------------------------------------------------
(* Vocabulary of the properties *)

\* the files the walk keeps, in its order
Discovered == IF rootExists THEN SelectSeq(tree, Discoverable) ELSE <<>>

DiscoveredSet == {Discovered[i] : i \in 1..Len(Discovered)}

\* the project-relative path Findings name a file by
Rel(e) == RelativePath(FullPath(e))

\* the Findings of one severity that name a file
FindingsOf(severity, rel) == SelectSeq(ISSUES[severity], LAMBDA f : f.file = rel)

\* files.forEach(checkFile) has returned
Analysed == pc \in {"duplicates", "tests", "packageJson", "dotnet", "report", "done"}

\* the analyzers after checkForDuplicates have run or the run is over
AfterDuplicates == pc \in {"tests", "packageJson", "dotnet", "report", "done"}

\* whether the pattern of a rule matches a line that is matched on its own
MatchesAlone(rule, line) == TestRule(rule, line, 0).hit

\* the lines of a file that match a rule of the given severity on their own
LinesMatching(e, severities) ==
    LET rules == getPatternsForFile(FullPath(e))
    IN  {n \in 1..Len(e.head) :
            \E k \in 1..Len(rules) : rules[k].severity \in severities /\ MatchesAlone(rules[k], e.head[n])}

----------------------------------------------------------------------------
(* Properties *)

\* C1: generateReport exits with status 1 exactly when the store holds a
\* critical or high Finding at report time and with status 0 otherwise,
\* whatever the medium, low and info counts are.
C1_ExitStatus ==
    pc = "done" =>
        /\ exitCode \in {0, 1}
        /\ exitCode = 1 <=> Len(ISSUES["critical"]) + Len(ISSUES["high"]) > 0

\* a run that ends with status 0 although medium and info Findings exist
C1_Witness ==
    /\ pc = "done"
    /\ exitCode = 0
    /\ Len(ISSUES["medium"]) > 0
    /\ Len(ISSUES["info"]) > 0

\* C2: for every line of a file and every rule of the file's language, if
\* the rule's pattern matches the line on its own, a Finding with that line
\* number, the rule's severity and the rule's message is in the store; no
\* match is lost to the state an earlier line left in the pattern.
C2_LineIndependent ==
    Analysed =>
        \A e \in DiscoveredSet :
            LET rules == getPatternsForFile(FullPath(e))
            IN  \A n \in 1..Len(e.head) : \A k \in 1..Len(rules) :
                    MatchesAlone(rules[k], e.head[n]) =>
                        \E j \in 1..Len(ISSUES[rules[k].severity]) :
                            LET f == ISSUES[rules[k].severity][j]
                            IN  f.file = Rel(e) /\ f.line = n /\ f.message = rules[k].message

\* C3: a discovered file with exactly one line that matches a critical
\* pattern of its language has exactly one critical Finding, at that line.
C3_OneCriticalFinding ==
    Analysed =>
        \A e \in DiscoveredSet :
            LET crit == LinesMatching(e, {"critical"})
                fs == FindingsOf("critical", Rel(e))
            IN  Cardinality(crit) = 1 => Len(fs) = 1 /\ fs[1].line \in crit

\* C4: a file that cannot be read is never fatal: the run does not die, and
\* when it is over the store holds a medium Finding for every such file.
C4_ReadFailureNotFatal ==
    /\ pc # "crashed"
    /\ pc = "done" =>
          \A e \in DiscoveredSet : ~e.readable => FindingsOf("medium", Rel(e)) # <<>>

\* C5: when the project root does not exist the run aborts before any
\* analysis: no Finding is ever recorded and no report is produced.
C5_MissingRootAborts ==
    ~rootExists => ISSUES = EmptyStore /\ report = NoReport

\* the Findings the whole-file stage of checkFile alone gives a file: the
\* component-size check and the structural checks of the file's language
StructuralFindings(e) ==
    LET rel == Rel(e)
        ext == getFileExtension(FullPath(e))
        comp == IF EndsWith(e.name, E_tsx) /\ LineCount(e) > MAX_COMPONENT_SIZE
                THEN Push(EmptyStore, "medium", Finding(rel, 1, "Component is large", LineCount(e), <<>>))
                ELSE EmptyStore
    IN  IF ext = E_py THEN checkPythonFile(rel, e.head, comp)
        ELSE IF ext \in {E_html, E_htm} THEN checkHTMLFile(rel, e.head, comp)
        ELSE IF ext = E_sql THEN checkSQLFile(rel, e.head, comp)
        ELSE IF ext \in {E_cs, E_cshtml, E_razor} THEN checkCSharpFile(rel, e.head, comp)
        ELSE comp

\* a file within the size threshold none of whose lines matches a rule
Unremarkable(e) ==
    /\ e \in DiscoveredSet
    /\ LineCount(e) <= MAX_FILE_SIZE
    /\ LinesMatching(e, Severities) = {}

\* C6 as stated: a discovered file within the size threshold, none of whose
\* lines matches a line-level rule of its language, has no Finding at all.
C6_NoFindingAtAll ==
    Analysed =>
        \A e \in DiscoveredSet :
            Unremarkable(e) => \A s \in Severities : FindingsOf(s, Rel(e)) = <<>>

\* C6 amended: such a file has no file-size Finding and no Finding of a
\* line-level rule: its Findings are those of the whole-file stage (the
\* structural checks of its language and the .tsx component-size check),
\* and there is none where that stage reports nothing.
C6_OnlyStructuralFindings ==
    Analysed =>
        \A e \in DiscoveredSet :
            Unremarkable(e) =>
                LET rel == Rel(e)
                    structural == StructuralFindings(e)
                IN  \A s \in Severities : FindingsOf(s, rel) = structural[s]

\* after the analysis, one unremarkable file without any Finding and
\* another with a Finding of a structural check
C6_Witness ==
    /\ Analysed
    /\ \E e \in DiscoveredSet :
          Unremarkable(e) /\ \A s \in Severities : FindingsOf(s, Rel(e)) = <<>>
    /\ \E e \in DiscoveredSet :
          Unremarkable(e) /\ \E s \in Severities : FindingsOf(s, Rel(e)) # <<>>

\* C7: when the run is over, every discovered file of more than
\* MAX_FILE_SIZE lines has exactly one high Finding at line 1.
C7_OneSizeFinding ==
    pc \in {"done", "crashed"} =>
        \A e \in DiscoveredSet :
            (e.readable /\ LineCount(e) > MAX_FILE_SIZE) =>
                Len(SelectSeq(FindingsOf("high", Rel(e)), LAMBDA f : f.line = 1)) = 1

\* the lines of a file on which an atom occurs
LinesWith(e, a) == {n \in 1..Len(e.head) : \E i \in 1..Len(e.head[n]) : e.head[n][i] = a}

\* an HTML file with two image tags on different lines, the first with an
\* alt attribute and the second without, and nothing else but a DOCTYPE
TwoImages(e) ==
    /\ getFileExtension(FullPath(e)) \in {E_html, E_htm}
    /\ \A n \in 1..Len(e.head) : Len(e.head[n]) <= 1
    /\ \A n \in 1..Len(e.head) : \A i \in 1..Len(e.head[n]) : e.head[n][i] \in {"doctype", "imgalt", "img"}
    /\ Cardinality(LinesWith(e, "imgalt")) = 1
    /\ Cardinality(LinesWith(e, "img")) = 1
    /\ \A n \in LinesWith(e, "imgalt") : \A m \in LinesWith(e, "img") : n < m

\* C8: such a file has exactly one medium Finding, at the line of the
\* second tag.
C8_OneImageFinding ==
    Analysed =>
        \A e \in DiscoveredSet :
            TwoImages(e) =>
                LET fs == FindingsOf("medium", Rel(e))
                IN  Len(fs) = 1 /\ fs[1].line \in LinesWith(e, "img")

\* the service naming convention, on a base name
FollowsServiceConvention(name) == Includes(name, P_Service) \/ Includes(name, P_service)

\* a base name with its extension stripped and its case folded
ServiceKey(name) == ToLower(SubSeq(name, 1, Len(name) - Len(ExtName(name))))

\* the relative paths of the discovered service files that share a key
ServiceGroup(key) ==
    {Rel(e) : e \in {x \in DiscoveredSet : FollowsServiceConvention(x.name) /\ ServiceKey(x.name) = key}}

\* C9: once checkForDuplicates has run, every group of two or more service
\* files has exactly one critical Finding, which lists the paths of the
\* group, and a file alone in its group is in no such Finding.
C9_DuplicateGroups ==
    AfterDuplicates =>
        \A e \in DiscoveredSet :
            FollowsServiceConvention(e.name) =>
                LET g == ServiceGroup(ServiceKey(e.name))
                    fs == SelectSeq(ISSUES["critical"],
                                    LAMBDA f : f.file = S_services
                                               /\ \E i \in 1..Len(f.args) : f.args[i] = Rel(e))
                IN  IF Cardinality(g) >= 2
                    THEN Len(fs) = 1 /\ {fs[1].args[i] : i \in 1..Len(fs[1].args)} = g
                    ELSE fs = <<>>

\* the high, file-scope Findings that recommend adopting tests
TestAdoptionFindings ==
    SelectSeq(ISSUES["high"],
              LAMBDA f : f.line = 0 /\ f.message \in {"No test files found",
                                                     ".NET project found but no test project detected"})

\* C10: at the end of the run the store holds exactly one high, file-scope
\* Finding recommending tests when no discovered file matches the
\* test-naming conventions, and none when some file does.
C10_TestPresence ==
    pc = "done" =>
        IF \E e \in DiscoveredSet : IsTestFile(FullPath(e))
        THEN TestAdoptionFindings = <<>>
        ELSE Len(TestAdoptionFindings) = 1

\* checkPackageJson has returned
AfterPackageJson == pc \in {"dotnet", "report", "done"}

\* the tools checkPackageJson recognises
LintTools == {"eslint", "@typescript-eslint/parser"}

TestFrameworks == {"vitest", "jest", "@testing-library/react", "mocha", "ava"}

\* C11: when package.json exists but cannot be parsed, checkPackageJson
\* records exactly one critical Finding for package.json and no other one,
\* the run does not die, and the report it goes on to produce exits 1.
C11_UnparsableManifest ==
    pkg.state = "bad" =>
        /\ pc # "crashed"
        /\ AfterPackageJson =>
              /\ Len(FindingsOf("critical", S_package_json)) = 1
              /\ \A s \in Severities \ {"critical"} : FindingsOf(s, S_package_json) = <<>>
        /\ pc = "done" => exitCode = 1 /\ report # NoReport

\* a run over an unparsable package.json that reached its end
C11_Witness ==
    /\ pkg.state = "bad"
    /\ pc = "done"
    /\ exitCode = 1
    /\ Len(FindingsOf("critical", S_package_json)) = 1

\* C12 as stated: for a package.json that parses, a medium Finding exactly
\* when the manifest declares no linting tool as a dependency, a high
\* Finding exactly when it declares no test framework as a dependency.
C12_DeclaredAnywhere ==
    (AfterPackageJson /\ pkg.state = "ok") =>
        /\ FindingsOf("medium", S_package_json) # <<>> <=> (pkg.dev \cup pkg.deps) \cap LintTools = {}
        /\ FindingsOf("high", S_package_json) # <<>> <=> (pkg.dev \cup pkg.deps) \cap TestFrameworks = {}

\* C12 amended: the same with the tools looked up under devDependencies
\* only; at most one Finding of each kind, and no other manifest Finding.
C12_DeclaredInDevDependencies ==
    (AfterPackageJson /\ pkg.state = "ok") =>
        /\ Len(FindingsOf("medium", S_package_json)) = (IF pkg.dev \cap LintTools = {} THEN 1 ELSE 0)
        /\ Len(FindingsOf("high", S_package_json)) = (IF pkg.dev \cap TestFrameworks = {} THEN 1 ELSE 0)
        /\ \A s \in {"critical", "low", "info"} : FindingsOf(s, S_package_json) = <<>>

\* a manifest with a linting tool and no test framework under
\* devDependencies, after checkPackageJson: the high Finding alone
C12_Witness ==
    /\ AfterPackageJson
    /\ pkg.state = "ok"
    /\ pkg.dev \cap LintTools # {}
    /\ pkg.dev \cap TestFrameworks = {}
    /\ FindingsOf("medium", S_package_json) = <<>>
    /\ Len(FindingsOf("high", S_package_json)) = 1

\* getAllFiles(projectRoot) has returned to the main script
Returned == pc \notin {"discover"} /\ ~getAllFilesThrows

\* the paths of a sequence of paths
PathSet(fs) == {fs[i] : i \in 1..Len(fs)}

\* C13: getAllFiles returns exactly the files under the root whose
\* extension is supported and whose path contains no directory of the
\* deny-list, each exactly once.
\* The list is assigned once, by the statement the walk returns to, and
\* is looked at before checkFile has gone through it.
C13_ExactlyEligibleFiles ==
    (idx = 1 /\ Returned) =>
        /\ PathSet(files) = {FullPath(tree[i]) : i \in {j \in 1..Len(tree) : Discoverable(tree[j])}}
        /\ Cardinality(PathSet(files)) = Len(files)
        /\ \A i \in 1..Len(files) : \A d \in SKIPPED_DIRS :
              ~Includes(RelativePath(files[i]), d \o <<"/">>)

\* a walk that returned a file and left out one that sits under a
\* deny-listed directory below the first level
C13_Witness ==
    /\ Returned
    /\ files # <<>>
    /\ \E i \in 1..Len(tree) :
          /\ Len(tree[i].dir) = 2
          /\ tree[i].dir[2] \in SKIPPED_DIRS
          /\ FullPath(tree[i]) \notin PathSet(files)

\* C14: a directory below the root that has vanished or cannot be read is
\* skipped as if it were empty: the run is not aborted, and discovery
\* returns every eligible file.
C14_FailingDirectorySkipped ==
    dirFaults # <<>> =>
        /\ pc # "crashed"
        /\ pc # "discover" => PathSet(files) = {FullPath(e) : e \in DiscoveredSet}

\* C16: generateReport decides the verdict from the bucket counts alone:
\* failure when critical+high > 0, otherwise passed with warnings when
\* medium+low > 0, otherwise a clean pass; it prints exactly one verdict,
\* and a store with only info Findings is a clean pass.
C16_ThreeVerdicts ==
    pc = "done" =>
        /\ Len(report.verdicts) = 1
        /\ report.verdicts[1] =
              (IF Len(ISSUES["critical"]) + Len(ISSUES["high"]) > 0 THEN "FAILED"
               ELSE IF Len(ISSUES["medium"]) + Len(ISSUES["low"]) > 0 THEN "PASSED WITH WARNINGS"
               ELSE "PASSED")

\* a report over a store that holds info Findings and nothing else
C16_Witness ==
    /\ pc = "done"
    /\ ISSUES["info"] # <<>>
    /\ \A s \in Severities \ {"info"} : ISSUES[s] = <<>>
    /\ report.verdicts = <<"PASSED">>

\* the number of positions of a sequence that hold f
Occurrences(fs, f) == Cardinality({i \in 1..Len(fs) : fs[i] = f})

\* C17: generateReport prints the critical, high, medium and low Findings
\* in that order of severity and, within a severity, in the order they
\* were appended; each is printed once; the printed counts are the bucket
\* lengths and the total is the sum over the five buckets.
C17_ReportOrder ==
    pc = "done" =>
        /\ report.printed = ISSUES["critical"] \o ISSUES["high"] \o ISSUES["medium"] \o ISSUES["low"]
        /\ \A s \in {"critical", "high", "medium", "low"} : \A i \in 1..Len(ISSUES[s]) :
              Occurrences(report.printed, ISSUES[s][i]) =
                  Occurrences(ISSUES["critical"], ISSUES[s][i]) + Occurrences(ISSUES["high"], ISSUES[s][i])
                  + Occurrences(ISSUES["medium"], ISSUES[s][i]) + Occurrences(ISSUES["low"], ISSUES[s][i])
        /\ \A s \in Severities : report.counts[s] = Len(ISSUES[s])
        /\ report.total = Len(ISSUES["critical"]) + Len(ISSUES["high"]) + Len(ISSUES["medium"])
                          + Len(ISSUES["low"]) + Len(ISSUES["info"])

\* a report over a store with Findings in three of the printed buckets,
\* two of them in one bucket, and an info Finding
C17_Witness ==
    /\ pc = "done"
    /\ Cardinality({s \in {"critical", "high", "medium", "low"} : ISSUES[s] # <<>>}) >= 3
    /\ \E s \in {"critical", "high", "medium", "low"} : Len(ISSUES[s]) >= 2
    /\ ISSUES["info"] # <<>>
    /\ report.total > Len(report.printed)

\* the upper-case letter of a lower-case one
UpperChar(c) ==
    LET letters == {"A", "B", "C", "D", "E", "F", "G", "H", "I", "J", "K", "L", "M",
                    "N", "O", "P", "Q", "R", "S", "T", "U", "V", "W", "X", "Y", "Z"}
    IN  IF \E u \in letters : LowerChar(u) = c /\ u # c
        THEN CHOOSE u \in letters : LowerChar(u) = c /\ u # c
        ELSE c

ToUpper(s) == [i \in 1..Len(s) |-> UpperChar(s[i])]

\* every second character in upper case
MixedCase(s) == [i \in 1..Len(s) |-> IF i % 2 = 0 THEN UpperChar(s[i]) ELSE s[i]]

\* paths with every supported extension and some others, in three letter
\* cases, under two directories and two base names
SamplePaths ==
    {<<"a">>, S_root \o <<"/", "b">>}
    \cup { d \o b \o v :
             d \in {<<>>, S_root \o <<"/">> \o S_src \o <<"/">>},
             b \in {<<"a">>, <<"B", ".", "t", "s">>},
             v \in UNION { {e, ToUpper(e), MixedCase(e)} :
                             e \in SUPPORTED_EXTENSIONS
                                   \cup {E_csproj, <<".", "m", "d">>, <<".", "t">>, <<".", "t", "s", "x", "x">>} } }

\* the rule list of a lower-case extension
RuleListOf(ext) ==
    CASE ext \in {E_ts, E_tsx, E_js, E_jsx} -> TS_JS_PATTERNS
      [] ext = E_py -> PYTHON_PATTERNS
      [] ext \in {E_html, E_htm} -> HTML_PATTERNS
      [] ext = E_sql -> SQL_PATTERNS
      [] ext \in {E_cs, E_cshtml, E_razor} -> CSHARP_PATTERNS
      [] OTHER -> <<>>

\* getPatternsForFile on the sample paths: the list of the lower-cased
\* extension, whatever the rest of the path
PatternsByExtension ==
    \A p \in SamplePaths : getPatternsForFile(p) = RuleListOf(ToLower(ExtName(p)))

\* C18: getPatternsForFile depends on the lower-cased extension alone: a
\* supported extension in any letter case gives its one rule list, any
\* other extension the empty list, and every file getAllFiles returns has
\* a rule list that is not empty.
C18_PatternsByExtension ==
    /\ PatternsByExtension
    /\ \A e \in SUPPORTED_EXTENSIONS : RuleListOf(e) # <<>>
    /\ pc # "discover" => \A i \in 1..Len(files) : getPatternsForFile(files[i]) # <<>>

\* getAllFiles returned files, and an extension in upper case has the rule
\* list of its language
C18_Witness ==
    /\ pc # "discover"
    /\ files # <<>>
    /\ \E p \in SamplePaths :
          /\ ExtName(p) # ToLower(ExtName(p))
          /\ getPatternsForFile(p) = HTML_PATTERNS

\* C19: the run ends only after every discovered file has been analysed,
\* the cross-file analyzers have run and generateReport has run: when the
\* process has exited, it has done so from generateReport, with a status.
C19_RunsToTheReport ==
    exitCode # -1 =>
        /\ pc = "done"
        /\ idx = Len(files) + 1
        /\ report # NoReport
        /\ exitCode \in {0, 1}

\* the pattern state of a process that has analysed nothing
FreshPatterns == [id \in RuleIds |-> 0]

\* C20: the Findings checkFile appends for a file depend on the path and
\* the content of the file alone: they are those of the file analysed on
\* its own, whichever files were analysed before it.
C20_FileIndependent ==
    Analysed =>
        \A e \in DiscoveredSet : \A s \in Severities :
            FindingsOf(s, Rel(e)) = checkFile(FullPath(e), St(EmptyStore, FreshPatterns)).issues[s]

\* the files checkFile has returned for, in the order of the walk
Checked == [i \in 1..(idx - 1) |-> EntryAt(files[i])]

CheckedSet == {Checked[i] : i \in 1..Len(Checked)}

\* the Findings of one severity that name a file and carry a message
FindingsWith(severity, rel, message) ==
    SelectSeq(ISSUES[severity], LAMBDA f : f.file = rel /\ f.message = message)

\* C21: the size checks compare strictly.  A file checkFile has analysed
\* has one file-size Finding (high, line 1, with its line count) when its
\* line count exceeds MAX_FILE_SIZE and none at MAX_FILE_SIZE or below; it
\* has one component Finding (medium, line 1) when it is a .tsx file of
\* more than MAX_COMPONENT_SIZE lines and none otherwise, so a .tsx file
\* above MAX_FILE_SIZE has both and a file that is not .tsx never has the
\* component Finding.
C21_StrictThresholds ==
    \A e \in CheckedSet :
        LET big == FindingsWith("high", Rel(e), "File is too large")
            comp == FindingsWith("medium", Rel(e), "Component is large")
        IN  /\ Len(big) = (IF LineCount(e) > MAX_FILE_SIZE THEN 1 ELSE 0)
            /\ Len(comp) = (IF EndsWith(e.name, E_tsx) /\ LineCount(e) > MAX_COMPONENT_SIZE THEN 1 ELSE 0)
            /\ \A i \in 1..Len(big) : big[i].line = 1 /\ big[i].count = LineCount(e)
            /\ \A i \in 1..Len(comp) : comp[i].line = 1 /\ comp[i].count = LineCount(e)
            /\ \A s \in Severities \ {"high"} : FindingsWith(s, Rel(e), "File is too large") = <<>>
            /\ \A s \in Severities \ {"medium"} : FindingsWith(s, Rel(e), "Component is large") = <<>>

\* an analysed .tsx file of exactly MAX_FILE_SIZE lines: the component
\* Finding and no file-size Finding
C21_Witness ==
    \E e \in CheckedSet :
        /\ EndsWith(e.name, E_tsx)
        /\ LineCount(e) = MAX_FILE_SIZE
        /\ Len(FindingsWith("medium", Rel(e), "Component is large")) = 1
        /\ FindingsWith("high", Rel(e), "File is too large") = <<>>

\* the messages of the rules of one severity
RuleMessages(rules, severity) ==
    {rules[k].message : k \in {j \in 1..Len(rules) : rules[j].severity = severity}}

\* the messages of a sequence of Findings
Messages(fs) == [i \in 1..Len(fs) |-> fs[i].message]

\* C22: for every line of an analysed file and every severity, the
\* Findings of that line that carry a rule's message are one per rule of
\* that severity whose pattern matches the line, in the order of the rule
\* list (followed by what the whole-file stage reports for the line under
\* the same message): k matching rules give k Findings, and a rule gives
\* one Finding for a line however often its pattern occurs in it.
C22_OneFindingPerMatchingRule ==
    \A e \in CheckedSet :
        LET rules == getPatternsForFile(FullPath(e))
        IN  \A n \in 1..Len(e.head) : \A s \in Severities :
                LET ofRule(f) == f.line = n /\ f.message \in RuleMessages(rules, s)
                    got == SelectSeq(FindingsOf(s, Rel(e)), ofRule)
                    ks == SelectSeq([k \in 1..Len(rules) |-> k],
                                    LAMBDA k : rules[k].severity = s /\ MatchesAlone(rules[k], e.head[n]))
                    structural == SelectSeq(StructuralFindings(e)[s], ofRule)
                IN  Messages(got) = [i \in 1..Len(ks) |-> rules[ks[i]].message] \o Messages(structural)

\* the severities of the rules that carry a message
SeveritiesOf(message) ==
    {ALL_PATTERNS[k].severity : k \in {j \in 1..Len(ALL_PATTERNS) : ALL_PATTERNS[j].message = message}}

\* C23: the store is append-only.  It always has exactly the five buckets
\* critical, high, medium, low and info; a Finding that carries the
\* message of a rule is in the bucket of that rule's severity; and every
\* step leaves each bucket as a prefix of what it becomes, so Findings
\* are never removed, changed or reordered and new ones go to the end.
C23_AppendOnly ==
    /\ [](/\ DOMAIN ISSUES = {"critical", "high", "medium", "low", "info"}
          /\ \A s \in DOMAIN ISSUES : \A i \in 1..Len(ISSUES[s]) :
                SeveritiesOf(ISSUES[s][i].message) # {} => s \in SeveritiesOf(ISSUES[s][i].message))
    /\ [][\A s \in Severities : IsPrefix(ISSUES[s], ISSUES'[s])]_vars

\* a run that ended with a bucket to which two steps appended: a Finding
\* of the analysis of a file, then one of a cross-file analyzer
C23_Witness ==
    /\ pc = "done"
    /\ \E s \in Severities :
          /\ Len(ISSUES[s]) >= 2
          /\ ISSUES[s][1].line > 0
          /\ ISSUES[s][Len(ISSUES[s])].line = 0

\* the part of the run a Finding comes from: 1 the analysis of a file,
\* 2 checkForDuplicates, 3 checkForTests, 4 checkPackageJson,
\* 5 checkDotNetProjectFiles
Stage(f) ==
    IF \E i \in 1..Len(files) : RelativePath(files[i]) = f.file THEN 1
    ELSE IF f.file = S_services THEN 2
    ELSE IF f.file = S_project /\ f.message = "No test files found" THEN 3
    ELSE IF f.file = S_package_json THEN 4
    ELSE 5

\* the position in the walk of the file a Finding names
FileIndex(f) == CHOOSE i \in 1..Len(files) : RelativePath(files[i]) = f.file

\* what the additional checks of a file's language report for it
LanguageFindings(e) ==
    LET rel == Rel(e)
        ext == getFileExtension(FullPath(e))
    IN  IF ext = E_py THEN checkPythonFile(rel, e.head, EmptyStore)
        ELSE IF ext \in {E_html, E_htm} THEN checkHTMLFile(rel, e.head, EmptyStore)
        ELSE IF ext = E_sql THEN checkSQLFile(rel, e.head, EmptyStore)
        ELSE IF ext \in {E_cs, E_cshtml, E_razor} THEN checkCSharpFile(rel, e.head, EmptyStore)
        ELSE EmptyStore

\* what one call of checkFile on e appends to a bucket: the size Findings,
\* then Findings of line-level rules by ascending line, then the Findings
\* of the additional checks
InFileOrder(e, severity, added) ==
    LET sized == CheckSizes(FullPath(e), Rel(e), LineCount(e), EmptyStore)[severity]
        whole == LanguageFindings(e)[severity]
        middle == SubSeq(added, Len(sized) + 1, Len(added) - Len(whole))
        rules == getPatternsForFile(FullPath(e))
    IN  /\ Len(added) >= Len(sized) + Len(whole)
        /\ SubSeq(added, 1, Len(sized)) = sized
        /\ SubSeq(added, Len(added) - Len(whole) + 1, Len(added)) = whole
        /\ \A i \in 1..Len(middle) :
              /\ middle[i].file = Rel(e)
              /\ middle[i].message \in RuleMessages(rules, severity)
              /\ i > 1 => middle[i - 1].line <= middle[i].line

\* C24: in every bucket the Findings of the analysis of files come before
\* those of the cross-file analyzers, the former in the discovery order of
\* their files and the latter in the order duplicates, test presence,
\* package manifest, project descriptors; one call of checkFile appends
\* the size Findings, then the rule Findings by ascending line, then the
\* Findings of the additional checks; and the report is produced after
\* the last Finding has been appended.
C24_StoreOrder ==
    /\ [](/\ \A s \in Severities : \A i, j \in 1..Len(ISSUES[s]) :
                i < j =>
                    /\ Stage(ISSUES[s][i]) <= Stage(ISSUES[s][j])
                    /\ (Stage(ISSUES[s][i]) = 1 /\ Stage(ISSUES[s][j]) = 1)
                           => FileIndex(ISSUES[s][i]) <= FileIndex(ISSUES[s][j])
          /\ report # NoReport => pc = "done")
    /\ [][/\ (pc = "checkFile" /\ idx' = idx + 1) =>
                \A s \in Severities :
                    InFileOrder(EntryAt(files[idx]), s,
                                SubSeq(ISSUES'[s], Len(ISSUES[s]) + 1, Len(ISSUES'[s])))
          /\ ISSUES' # ISSUES => report = NoReport /\ report' = NoReport]_vars

\* a run that ended with a bucket that holds the size Finding of a file,
\* then a rule Finding of the same file, and last the Finding of a
\* cross-file analyzer
C24_Witness ==
    /\ pc = "done"
    /\ \E s \in Severities :
          /\ Len(ISSUES[s]) >= 3
          /\ ISSUES[s][1].message = "File is too large"
          /\ ISSUES[s][2].message \in RuleMessages(ALL_PATTERNS, s)
          /\ ISSUES[s][2].file = ISSUES[s][1].file
          /\ Stage(ISSUES[s][Len(ISSUES[s])]) > 1

\* every Finding in the store, whatever its bucket
AllFindings == UNION { {ISSUES[s][i] : i \in 1..Len(ISSUES[s])} : s \in Severities }

\* the discovered file a Finding of the analysis of files names
FileOf(f) == EntryAt(files[FileIndex(f)])

\* C25: a Finding has line 0 exactly when a cross-file analyzer produced
\* it; a Finding of the analysis of a file has a line between 1 and the
\* line count of the file it names; a Finding of a line-level rule is at a
\* line that its rule matches, and a missing-alt Finding at a line on
\* which an image tag starts.
C25_LineNumbers ==
    \A s \in Severities : \A i \in 1..Len(ISSUES[s]) :
        LET f == ISSUES[s][i]
        IN  /\ f.line = 0 <=> Stage(f) > 1
            /\ Stage(f) = 1 =>
                  LET e == FileOf(f)
                      rules == getPatternsForFile(FullPath(e))
                      named == {k \in 1..Len(rules) : rules[k].severity = s /\ rules[k].message = f.message}
                  IN  /\ 1 <= f.line /\ f.line <= LineCount(e)
                      /\ named # {} =>
                            /\ f.line <= Len(e.head)
                            /\ \E k \in named : MatchesAlone(rules[k], e.head[f.line])
                      /\ f.message = "Image missing alt attribute" =>
                            /\ f.line <= Len(e.head)
                            /\ \E a \in 1..Len(e.head[f.line]) : e.head[f.line][a] \in {"img", "imgalt"}

\* a run that ended with a missing-alt Finding below the first line of
\* its file and with a Finding of a cross-file analyzer
C25_Witness ==
    /\ pc = "done"
    /\ \E f \in AllFindings :
          Stage(f) = 1 /\ f.message = "Image missing alt attribute" /\ f.line > 1
    /\ \E f \in AllFindings : Stage(f) > 1 /\ f.line = 0

\* the duplicate Findings in the store
DuplicateFindings == SelectSeq(ISSUES["critical"], LAMBDA f : f.file = S_services)

\* C26: every duplicate Finding names discovered files whose own base name
\* follows the service naming convention and whose base names, with the
\* extension stripped and the case folded, are all equal; a file is named
\* in at most one duplicate Finding.
C26_GroupedByBaseName ==
    AfterDuplicates =>
        /\ \A i \in 1..Len(DuplicateFindings) :
              LET named == PathSet(DuplicateFindings[i].args)
                  es == {e \in DiscoveredSet : Rel(e) \in named}
              IN  /\ named = {Rel(e) : e \in es}
                  /\ \A e \in es : FollowsServiceConvention(e.name)
                  /\ \A e1, e2 \in es : ServiceKey(e1.name) = ServiceKey(e2.name)
        /\ \A i, j \in 1..Len(DuplicateFindings) :
              i # j => PathSet(DuplicateFindings[i].args) \cap PathSet(DuplicateFindings[j].args) = {}

\* C27: an analysed SQL file has a high DROP Finding if and only if it
\* holds a DROP TABLE or DROP DATABASE statement that has no IF EXISTS
\* guard of its own; a file whose DROP statements all carry the guard has
\* none.
C27_UnguardedDrop ==
    \A e \in CheckedSet :
        getFileExtension(FullPath(e)) = E_sql =>
            (FindingsWith("high", Rel(e), "DROP statement without IF EXISTS clause") # <<>>
                <=> LinesWith(e, "drop") # {})

\* a line that declares a public member
DeclaresPublicMember(line) == ~IsDocLine(line) /\ MatchesAlone(PublicMemberRegex, line)

\* C28: in an analysed C# file, a line that declares a public member has
\* a low missing-documentation Finding if and only if the line just
\* before it is not a documentation-comment line, whatever the lines
\* before declare.
C28_UndocumentedPublicMember ==
    \A e \in CheckedSet :
        getFileExtension(FullPath(e)) \in {E_cs, E_cshtml, E_razor} =>
            \A n \in 1..Len(e.head) :
                DeclaresPublicMember(e.head[n]) =>
                    ((\E i \in 1..Len(ISSUES["low"]) :
                          /\ ISSUES["low"][i].file = Rel(e)
                          /\ ISSUES["low"][i].line = n
                          /\ ISSUES["low"][i].message = PublicMemberRegex.message)
                     <=> ~(n > 1 /\ IsDocLine(e.head[n - 1])))

\* checkDotNetProjectFiles has returned
AfterDotNet == pc \in {"report", "done"}

\* the version a target framework declaration stands for
DeclaredVersion(a) ==
    CASE a \in {"tf_net40", "tf_net4.0", "tfv_4.0"} -> <<4, 0, 0>>
      [] a = "tf_net4.5" -> <<4, 5, 0>>
      [] a \in {"tf_net451", "tf_net4.5.1"} -> <<4, 5, 1>>
      [] a \in {"tf_net452", "tf_net4.5.2"} -> <<4, 5, 2>>
      [] a = "tf_net4.8" -> <<4, 8, 0>>

\* a version below 4.5.2
Below452(v) ==
    \/ v[1] < 4
    \/ v[1] = 4 /\ v[2] < 5
    \/ v[1] = 4 /\ v[2] = 5 /\ v[3] < 2

\* C29: once checkDotNetProjectFiles has run, a .csproj that declares a
\* target framework has a high Finding exactly when the declared version
\* is below 4.5.2, in the dotted and in the compact form alike.
C29_FrameworkThreshold ==
    AfterDotNet =>
        \A i \in 1..Len(tree) :
            LET e == tree[i]
                decl == SelectSeq(Flatten(e.head, 1), LAMBDA x : x.atom \in TfAtoms)
            IN  (ToLower(ExtName(e.name)) = E_csproj /\ Walked(e) /\ e.readable /\ decl # <<>>) =>
                    (FindingsWith("high", Rel(e), "Target framework is below 4.5.2") # <<>>
                        <=> Below452(DeclaredVersion(decl[1].atom)))

\* a file whose path below the project root follows a test-naming
\* convention
TestNamed(e) ==
    \/ Includes(Rel(e), P_test) \/ Includes(Rel(e), P_spec)
    \/ Includes(Rel(e), P_tests_dir) \/ Includes(Rel(e), P_test_dir)

====
